---- MODULE Spec2Model ----
(***************************************************************************)
(* Crypto-Portfolio-Tracker: the price resolver (cache-aside GetPrices),   *)
(* the sliding-window RateLimiter and the price cache.                     *)
(*                                                                         *)
(* Time is counted in whole seconds: Second == 1, Minute == 60.            *)
(***************************************************************************)
EXTENDS Integers, Sequences, FiniteSets, TLC

\* ------------------------------------------------------------------ bounds
\* Largest maxCalls argument handed to NewRateLimiter (0 is normalised to 1).
MaxCallsArg == 2
\* Largest windowDuration argument, in seconds (0 is normalised to Minute).
MaxWindowArg == 2
\* Number of goroutines that call Allow on the one limiter.
NumCallers == 2
\* Allow calls started in one run of the limiter specification.
MaxAllowCalls == 3
\* Last clock value of the limiter specification, in seconds.
MaxTime == 4
\* Last clock value of the Etherscan provider's specification, in seconds.
MaxChainTime == 1
\* Longest token slice handed to GetPrices.
MaxTokens == 2
\* Half minutes the clock of the price specification runs for.
MaxHalfMinutes == 1
\* Cache alone: the half minutes that pass.
MaxCacheHalfMinutes == 2
\* Longest token slice handed to RateLimitedService.GetPrices.
MaxBatchedTokens == 3
\* Largest RateLimitedService.maxBatchSize.
MaxBatchSize == 2
\* Largest token decimals, amount (either sign) and price value CalculateValue
\* is given, beside the 18-decimals example.
MaxDecimals == 2
MaxAmount == 25
MaxPriceValue == 9
\* Most stored holdings of a portfolio, and most transactions a token-transfer
\* fetch and an internal-transfer fetch return.
MaxHoldings == 2
MaxTokenTxs == 2
MaxInternalTxs == 1
\* Most transactions CalculateTokensAmounts is called on by itself.
MaxReducedTxs == 3
\* TransactionsByAddress: the transactions a fetch returns, the page and page
\* size asked for, and the dates of the filter.
MaxNativeListed == 2
MaxOtherListed == 1
MaxPage == 3
MaxStamp == 3
\* RateLimitedService.GetPrices: the turns of the loop that are followed.
MaxTurns == 5
\* AddHolding, UpdateHolding and DeleteHolding: the calls made in one run and
\* the largest amount added.
MaxAddHoldings == 3
MaxAdded == 2

\* --------------------------------------------------------- program constants
Second == 1
Minute == 60

ErrRateLimitExceeded == "rate limit exceeded"
NoErr == "nil"

VARIABLES
    now,             \* the wall clock read by time.Now()
    maxCalls,        \* RateLimiter.maxCalls
    windowDuration,  \* RateLimiter.windowDuration
    cleanupInterval, \* RateLimiter.cleanupInterval
    callTimestamps,  \* RateLimiter.callTimestamps
    lastCleanup,     \* RateLimiter.lastCleanup
    mu,              \* RateLimiter.mu: 0 when free, else the goroutine holding it
    pc,              \* where each goroutine stands in Allow
    nowL,            \* Allow's local now
    seenL,           \* callTimestamps as Allow found them when it took the lock
    retL,            \* what each goroutine's last Allow returned
    started,         \* Allow calls started so far
    okCount,         \* Allow calls that returned nil
    errCount,        \* Allow calls that returned ErrRateLimitExceeded
    contended        \* some goroutine called Allow while another held the lock

rlVars == <<now, maxCalls, windowDuration, cleanupInterval, callTimestamps,
            lastCleanup, mu, pc, nowL, seenL, retL, started, okCount, errCount,
            contended>>

callerVars == <<mu, pc, nowL, seenL, retL, started, okCount, errCount, contended>>

VARIABLES
    cache,           \* Cache.m of the price cache: key -> Price
    call             \* what the GetPrices call just made was given, did and returned

priceVars == <<cache, call>>

VARIABLES
    batched          \* the RateLimitedService.GetPrices call in progress or just made

VARIABLES
    valued           \* the CalculateValue call just made: its arguments and result

valueVars == <<valued>>

VARIABLES
    folio            \* the GetPortfolioAssets call just made: what its repositories
                     \* and providers answered, what it computed and returned

folioVars == <<folio>>

VARIABLES
    reduced,         \* the CalculateTokensAmounts call just made
    listing,         \* the TransactionsByAddress call just made
    classified       \* the transaction the chain provider has just converted

txVars == <<reduced, listing, classified>>

VARIABLES
    cacheOp,         \* the Cache method just called: its arguments and result
    written          \* history: the value last written under each cache key

storeVars == <<cacheOp, written>>

VARIABLES
    goroutine,       \* where each goroutine stands in GetPrices, Allow or a Cache
                     \* method, and what it has read so far
    cacheMu          \* Cache.mu: the goroutines holding it for reading, and the
                     \* goroutine that has called Lock (0 when none)

lockVars == <<goroutine, cacheMu>>

VARIABLES
    chain,           \* the listing call of the Etherscan provider in progress: its
                     \* two fetching goroutines, its channels and what it collected
    lookup           \* the GetTokenBalances or GetTransactionByHash call in progress

chainVars == <<chain, lookup>>

VARIABLES
    ledger           \* the holdings table, and the AddHolding calls in progress

ledgerVars == <<ledger>>

moreVars == <<storeVars, lockVars, chainVars, ledgerVars>>

svcVars == <<batched, valueVars, folioVars, txVars, moreVars>>

vars == <<rlVars, priceVars, svcVars>>

Callers == 1..NumCallers

\* ------------------------------------------------------------ RateLimiter

\* time.Time.After
AfterMutAlways(ts, cutoff) == TRUE
After(ts, cutoff) == ts > cutoff

\* NewRateLimiter: the normalised maxCalls.
NewMaxCalls(mc) == IF mc <= 0 THEN 1 ELSE mc

\* NewRateLimiter: the normalised windowDuration.
NewWindowDuration(wd) == IF wd <= 0 THEN Minute ELSE wd

\* NewRateLimiter: 10% of the window, at least one second.
NewCleanupInterval(wd) ==
    IF NewWindowDuration(wd) \div 10 < Second
    THEN Second
    ELSE NewWindowDuration(wd) \div 10

\* cleanup: the timestamps after now - windowDuration, in order.
cleanup(ts, t) == SelectSeq(ts, LAMBDA x : After(x, t - windowDuration))

\* Allow, lines 56-68: the opportunistic cleanup, then the pruning pass.
PruneMutKeepsCutoff(ts, t) == SelectSeq(ts, LAMBDA x : x >= t - windowDuration)
Prune(ts, t) ==
    LET afterCleanup == IF t - lastCleanup > cleanupInterval THEN cleanup(ts, t) ELSE ts
    IN  SelectSeq(afterCleanup, LAMBDA x : After(x, t - windowDuration))

\* Allow, lines 56-59: lastCleanup after the opportunistic cleanup.
NextLastCleanup(t) == IF t - lastCleanup > cleanupInterval THEN t ELSE lastCleanup

\* Allow, line 70: the limit test on the pruned timestamps.
LimitReachedMutOffByOne(pruned) == Len(pruned) > maxCalls
LimitReached(pruned) == Len(pruned) >= maxCalls

\* Allow, lines 70-75: the timestamps after the call.
Recorded(pruned, t) == IF LimitReached(pruned) THEN pruned ELSE Append(pruned, t)

\* Allow, lines 70-75: the value returned.
AllowResult(pruned) == IF LimitReached(pruned) THEN ErrRateLimitExceeded ELSE NoErr

\* NewRateLimiter(mc, wd) for some mc of mcs and wd of wds, at time 0, and the
\* goroutines that will call it.
LimiterInit(mcs, wds) ==
    /\ now = 0
    /\ \E mc \in mcs, wd \in wds :
          /\ maxCalls = NewMaxCalls(mc)
          /\ windowDuration = NewWindowDuration(wd)
          /\ cleanupInterval = NewCleanupInterval(wd)
    /\ callTimestamps = <<>>
    /\ lastCleanup = 0
    /\ mu = 0
    /\ pc = [p \in Callers |-> "idle"]
    /\ nowL = [p \in Callers |-> 0]
    /\ seenL = [p \in Callers |-> <<>>]
    /\ retL = [p \in Callers |-> NoErr]
    /\ started = 0
    /\ okCount = 0
    /\ errCount = 0
    /\ contended = FALSE

\* A goroutine calls Allow and reaches rl.mu.Lock().
AllowCall(p) ==
    /\ pc[p] = "idle"
    /\ started < MaxAllowCalls
    /\ started' = started + 1
    /\ pc' = [pc EXCEPT ![p] = "lock"]
    /\ contended' = (contended \/ mu # 0)
    /\ UNCHANGED <<now, maxCalls, windowDuration, cleanupInterval, callTimestamps,
                   lastCleanup, mu, nowL, seenL, retL, okCount, errCount>>
    /\ UNCHANGED priceVars
    /\ UNCHANGED svcVars

\* rl.mu.Lock() succeeds: the mutex is free.
MutexFreeMutNoLock(p) == TRUE
MutexFree(p) == mu = 0

\* Allow, lines 51-54: take the lock and read the clock.
AllowLock(p) ==
    /\ pc[p] = "lock"
    /\ MutexFree(p)
    /\ mu' = p
    /\ nowL' = [nowL EXCEPT ![p] = now]
    /\ seenL' = [seenL EXCEPT ![p] = callTimestamps]
    /\ pc' = [pc EXCEPT ![p] = "prune"]
    /\ UNCHANGED <<now, maxCalls, windowDuration, cleanupInterval, callTimestamps,
                   lastCleanup, retL, started, okCount, errCount, contended>>
    /\ UNCHANGED priceVars
    /\ UNCHANGED svcVars

\* Allow, lines 56-68: cleanup when due, then prune.
AllowPrune(p) ==
    /\ pc[p] = "prune"
    /\ callTimestamps' = Prune(callTimestamps, nowL[p])
    /\ lastCleanup' = NextLastCleanup(nowL[p])
    /\ pc' = [pc EXCEPT ![p] = "check"]
    /\ UNCHANGED <<now, maxCalls, windowDuration, cleanupInterval, mu, nowL, seenL,
                   retL, started, okCount, errCount, contended>>
    /\ UNCHANGED priceVars
    /\ UNCHANGED svcVars

\* Allow, line 70: compare the pruned length with maxCalls.
AllowCheck(p) ==
    /\ pc[p] = "check"
    /\ retL' = [retL EXCEPT ![p] = AllowResult(callTimestamps)]
    /\ pc' = [pc EXCEPT ![p] = "record"]
    /\ UNCHANGED <<now, maxCalls, windowDuration, cleanupInterval, callTimestamps,
                   lastCleanup, mu, nowL, seenL, started, okCount, errCount,
                   contended>>
    /\ UNCHANGED priceVars
    /\ UNCHANGED svcVars

\* Allow, lines 71-75: return the error, or append now and return nil.
AllowRecord(p) ==
    /\ pc[p] = "record"
    /\ callTimestamps' = IF retL[p] = NoErr
                         THEN Append(callTimestamps, nowL[p])
                         ELSE callTimestamps
    /\ pc' = [pc EXCEPT ![p] = "unlock"]
    /\ UNCHANGED <<now, maxCalls, windowDuration, cleanupInterval, lastCleanup, mu,
                   nowL, seenL, retL, started, okCount, errCount, contended>>
    /\ UNCHANGED priceVars
    /\ UNCHANGED svcVars

\* Allow, line 52: the deferred rl.mu.Unlock(), and the return to the caller.
AllowUnlock(p) ==
    /\ pc[p] = "unlock"
    /\ mu' = IF mu = p THEN 0 ELSE mu
    /\ pc' = [pc EXCEPT ![p] = "idle"]
    /\ okCount' = IF retL[p] = NoErr THEN okCount + 1 ELSE okCount
    /\ errCount' = IF retL[p] = NoErr THEN errCount ELSE errCount + 1
    /\ UNCHANGED <<now, maxCalls, windowDuration, cleanupInterval, callTimestamps,
                   lastCleanup, nowL, seenL, retL, started, contended>>
    /\ UNCHANGED priceVars
    /\ UNCHANGED svcVars

\* One second passes, while fewer than n have.
TickSecondUpTo(n) ==
    /\ now < n
    /\ now' = now + Second
    /\ UNCHANGED <<maxCalls, windowDuration, cleanupInterval, callTimestamps,
                   lastCleanup, mu, pc, nowL, seenL, retL, started, okCount,
                   errCount, contended>>
    /\ UNCHANGED priceVars
    /\ UNCHANGED svcVars

\* One second passes.
TickSecond == TickSecondUpTo(MaxTime)

NextLimiter ==
    \/ \E p \in Callers : AllowCall(p)
    \/ \E p \in Callers : AllowLock(p)
    \/ \E p \in Callers : AllowPrune(p)
    \/ \E p \in Callers : AllowCheck(p)
    \/ \E p \in Callers : AllowRecord(p)
    \/ \E p \in Callers : AllowUnlock(p)
    \/ TickSecond

\* ------------------------------------------------------------- price cache

\* A map with no entries (make(map[K]V)).
EmptyMap == [k \in {} |-> 0]

\* The keys of a Go slice.
Range(seq) == {seq[i] : i \in DOMAIN seq}

\* Cache.GetBatch: the entries of m under the given keys.
GetBatch(m, keys) == [k \in Range(keys) \cap DOMAIN m |-> m[k]]

\* Cache.SetBatch: m with every item written over it.
SetBatchMutReplaces(m, items) == items
SetBatch(m, items) == [k \in DOMAIN items \cup DOMAIN m |->
                          IF k \in DOMAIN items THEN items[k] ELSE m[k]]

\* ------------------------------------------------------------ price service

\* Service.cacheTTL, set by NewService from the package constant.
cacheTTL == 1 * Minute

\* The token objects (*token.Token) handed to GetPrices: the WETH and USDC
\* tokens of the token repository, and the ETH token that GetPortfolioAssets
\* synthesizes with the WETH address for the price lookup.
Tokens == {"weth", "usdc", "eth"}

\* portfolio.WETHAddress, and the address of the USDC contract.
WETHAddress == "0xc02aaa39b223fe8d0a0e5c4f27ead9083c756cc2"
USDCAddress == "0xa0b8"

\* Token.Address of each token object.
Address == [t \in Tokens |->
               CASE t = "weth" -> WETHAddress
                 [] t = "usdc" -> USDCAddress
                 [] t = "eth"  -> WETHAddress]

Currencies == {"usd"}

\* The quotes a provider may give, and how old its LastUpdated stamp may be:
\* the mock stamps time.Now(), CoinGecko the last_updated_at of its answer.
MockQuote == 1000000000
PrimaryQuote == 2 * MockQuote
QuoteAges == {0, Minute}

\* The token slices GetPrices is called with.
TokenLists == UNION {[1..n -> Tokens] : n \in 0..MaxTokens}

\* Service.cacheKey: fmt.Sprintf("%s:%s", tokenID, currency)
cacheKey(tokenID, currency) == tokenID \o ":" \o currency

\* GetPrices, lines 1512-1518: cacheKeys.
CacheKeys(tokens, currency) ==
    [i \in DOMAIN tokens |-> cacheKey(Address[tokens[i]], currency)]

\* GetPrices, lines 1513-1518: tokenToKey, where a later token of the slice
\* replaces an earlier one with the same key.
TokenToKey(tokens, currency) ==
    [k \in Range(CacheKeys(tokens, currency)) |->
        LET last == CHOOSE i \in DOMAIN tokens :
                       /\ cacheKey(Address[tokens[i]], currency) = k
                       /\ \A j \in DOMAIN tokens :
                             cacheKey(Address[tokens[j]], currency) = k => j <= i
        IN  tokens[last]]

\* GetPrices, line 1531: the freshness test on a cached price.
IsFresh(cachedPrice, t) == t - cachedPrice.LastUpdated < cacheTTL

\* GetPrices, lines 1525-1534: results after the loop over cachedPrices.
CacheHits(tokens, currency, cachedPrices, t) ==
    LET tokenToKey == TokenToKey(tokens, currency)
        freshKeys == {k \in DOMAIN cachedPrices : IsFresh(cachedPrices[k], t)}
    IN  [tk \in {tokenToKey[k] : k \in freshKeys} |->
            cachedPrices[CHOOSE k \in freshKeys : tokenToKey[k] = tk]]

\* GetPrices, lines 1535-1538: the tokens the loop over cachedPrices appends
\* to missedTokens.
StaleTokens(tokens, currency, cachedPrices, t) ==
    LET tokenToKey == TokenToKey(tokens, currency)
    IN  {tokenToKey[k] : k \in {x \in DOMAIN cachedPrices : ~IsFresh(cachedPrices[x], t)}}

\* The orders in which a Go map range may visit a set.
Orders(S) == {f \in [1..Cardinality(S) -> S] : \A x \in S : \E i \in DOMAIN f : f[i] = x}

\* GetPrices, lines 1541-1546: the tokens without a result, in slice order.
WithoutResult(tokens, results) == SelectSeq(tokens, LAMBDA t : t \notin DOMAIN results)

\* strings.ToUpper on a currency code.
ToUpper(currency) == CASE currency = "usd" -> "USD" [] OTHER -> currency

\* What one PriceProvider.GetPrices call may answer for a batch at time t: an
\* error, or quotes for some of the batch's tokens. The mock gives its prices
\* the currency as asked, CoinGecko in upper case.
ProviderAnswers(batch, currency, t, quote) ==
    {[err |-> TRUE, prices |-> EmptyMap]} \cup
    {[err |-> FALSE,
      prices |-> [tk \in S |-> [Token |-> tk, Value |-> quote, Currency |-> currency,
                                LastUpdated |-> t - a]]] :
        S \in SUBSET Range(batch), a \in QuoteAges}

\* A provider that was not called.
NotCalled == [err |-> FALSE, prices |-> EmptyMap]

\* cacheFetchedPrices: the cacheItems the range over prices may build; of two
\* fetched tokens with one key the one visited last stays.
CacheItems(prices, currency) ==
    LET keys == {cacheKey(Address[tk], currency) : tk \in DOMAIN prices}
    IN  {items \in [keys -> Range(prices)] :
            \A k \in keys : \E tk \in DOMAIN prices :
                /\ cacheKey(Address[tk], currency) = k
                /\ items[k] = prices[tk]}

\* GetPrices, lines 1585-1587: results with every fetched price written over it.
MergeFetched(results, fetched) ==
    [tk \in DOMAIN fetched \cup DOMAIN results |->
        IF tk \in DOMAIN fetched THEN fetched[tk] ELSE results[tk]]

\* GetPrices, lines 1556-1558: the primary provider is called when Allow
\* returned nil.
PrimaryCalledMutAlways(allowRet) == TRUE
PrimaryCalled(allowRet) == allowRet = NoErr

\* GetPrices, lines 1557-1574: err after the rate limiter and the primary.
PrimaryFailedMutLimiterIgnored(allowRet, primaryErr) == primaryErr
PrimaryFailed(allowRet, primaryErr) == allowRet # NoErr \/ primaryErr

\* GetPrices, line 1580: the map returned with the error (nil).
FailureResultsMutKeepHits(hits) == hits
FailureResults(hits) == EmptyMap

ErrBothFailed == "both primary and fallback providers failed"

\* The record of a GetPrices call that has not happened. at is where the call
\* stands; cached is what GetBatch returned, now the clock as line 1521 read
\* it, hits the results the cache gave; before holds the caller's previous
\* call when this is the one it makes right after it.
NoCall ==
    [nth |-> 0, at |-> "idle", tokens |-> <<>>, currency |-> "", now |-> 0,
     cached |-> EmptyMap, hits |-> EmptyMap,
     missedTokens |-> <<>>, allowCalls |-> 0, allowRet |-> NoErr,
     primaryCalls |-> <<>>, primaryErr |-> FALSE,
     fallbackCalls |-> <<>>, fallbackErr |-> FALSE,
     fetched |-> EmptyMap, cacheItems |-> EmptyMap,
     setBatchCalls |-> 0, getBatchCalls |-> 0,
     results |-> EmptyMap, resultsNil |-> FALSE, err |-> NoErr, before |-> <<>>]

\* NewCache and NewService: an empty cache, no call made.
InitPriceService ==
    /\ cache = EmptyMap
    /\ call = NoCall

\* GetPrices, lines 1521-1546: what the two loops may leave in results and in
\* missedTokens for the cached prices read, at time t.
Sortings(tokens, currency, cachedPrices, t) ==
    LET hits == CacheHits(tokens, currency, cachedPrices, t)
        stale == StaleTokens(tokens, currency, cachedPrices, t)
    IN  {[hits |-> hits, missed |-> staleOrder \o WithoutResult(tokens, hits)] :
            staleOrder \in Orders(stale)}

\* Service.GetPrices, lines 1497-1520: the call is made and, for tokens given,
\* reads the cache with GetBatch, which takes Cache.mu for reading; nth tells
\* the first call of a caller from the one it makes right after it.
GetPricesEntered(tokens, currency, nth) ==
    /\ cacheMu.writer = 0 \/ Len(tokens) = 0
    /\ LET made == [NoCall EXCEPT !.nth = nth, !.tokens = tokens, !.currency = currency,
                                  !.before = IF nth = 1 THEN <<>>
                                             ELSE <<[call EXCEPT !.before = <<>>]>>]
       IN  call' = IF Len(tokens) = 0
                   THEN \* lines 1502-1505
                        [made EXCEPT !.at = "done"]
                   ELSE [made EXCEPT !.at = "sort", !.getBatchCalls = 1,
                                     !.cached = GetBatch(cache, CacheKeys(tokens, currency))]
    /\ UNCHANGED <<rlVars, cache>>

\* Service.GetPrices called by a caller that is not followed further.
GetPricesCall(tokens, currency, nth) ==
    /\ GetPricesEntered(tokens, currency, nth)
    /\ UNCHANGED svcVars

\* A caller calls Service.GetPrices.
GetPrices(tokens, currency) ==
    /\ call = NoCall
    /\ GetPricesCall(tokens, currency, 1)

\* The caller of the last GetPrices, which has returned, calls it again with
\* the same tokens and currency.
GetPricesAgain ==
    /\ call.nth = 1
    /\ call.at = "returned"
    /\ GetPricesCall(call.tokens, call.currency, 2)

\* GetPrices, lines 1521-1550: the clock is read and the cached prices are
\* sorted into results and missedTokens; with nothing missed the call returns.
GetPricesSort ==
    /\ call.at = "sort"
    /\ \E sorting \in Sortings(call.tokens, call.currency, call.cached, now) :
          call' = [call EXCEPT
              !.now = now, !.hits = sorting.hits, !.missedTokens = sorting.missed,
              !.results = IF Len(sorting.missed) = 0 THEN sorting.hits ELSE @,
              !.at = IF Len(sorting.missed) = 0 THEN "done" ELSE "allow"]
    /\ UNCHANGED <<rlVars, cache, svcVars>>

\* GetPrices, line 1556: s.rateLimiter.Allow, which takes RateLimiter.mu and
\* reads the clock itself.
GetPricesAllow ==
    /\ call.at = "allow"
    /\ mu = 0
    /\ LET pruned == Prune(callTimestamps, now)
           allowRet == AllowResult(pruned)
       IN  /\ callTimestamps' = Recorded(pruned, now)
           /\ lastCleanup' = NextLastCleanup(now)
           /\ call' = [call EXCEPT
                  !.allowCalls = 1, !.allowRet = allowRet,
                  !.at = IF PrimaryCalled(allowRet) THEN "primary"
                         ELSE IF PrimaryFailed(allowRet, FALSE) THEN "fallback"
                         ELSE "store"]
    /\ UNCHANGED <<now, maxCalls, windowDuration, cleanupInterval, callerVars, cache,
                   svcVars>>

\* GetPrices, lines 1557-1566: s.primaryProvider.GetPrices answers.
GetPricesPrimary ==
    /\ call.at = "primary"
    /\ \E primary \in ProviderAnswers(call.missedTokens, ToUpper(call.currency), now,
                                      PrimaryQuote) :
          call' = [call EXCEPT
              !.primaryCalls = <<call.missedTokens>>, !.primaryErr = primary.err,
              !.fetched = primary.prices,
              !.at = IF PrimaryFailed(call.allowRet, primary.err) THEN "fallback"
                                                                    ELSE "store"]
    /\ UNCHANGED <<rlVars, cache, svcVars>>

\* GetPrices, lines 1573-1583: s.fallbackProvider.GetPrices answers; when it
\* fails too the call returns the error.
GetPricesFallback ==
    /\ call.at = "fallback"
    /\ \E fallback \in ProviderAnswers(call.missedTokens, call.currency, now, MockQuote) :
          call' = IF fallback.err
                  THEN [call EXCEPT
                           !.fallbackCalls = <<call.missedTokens>>, !.fallbackErr = TRUE,
                           !.fetched = EmptyMap,
                           !.results = FailureResults(call.hits), !.resultsNil = TRUE,
                           !.err = ErrBothFailed, !.at = "done"]
                  ELSE [call EXCEPT
                           !.fallbackCalls = <<call.missedTokens>>,
                           !.fetched = fallback.prices, !.at = "store"]
    /\ UNCHANGED <<rlVars, cache, svcVars>>

\* GetPrices, lines 1585-1598, and cacheFetchedPrices: the fetched prices are
\* merged into results and written with SetBatch, which takes Cache.mu for
\* writing; the call returns.
GetPricesStore ==
    /\ call.at = "store"
    /\ cacheMu.writer = 0
    /\ cacheMu.readers = {}
    /\ \E cacheItems \in CacheItems(call.fetched, call.currency) :
          /\ cache' = SetBatch(cache, cacheItems)
          /\ call' = [call EXCEPT
                 !.cacheItems = cacheItems, !.setBatchCalls = 1,
                 !.results = MergeFetched(call.hits, call.fetched), !.at = "done"]
    /\ UNCHANGED <<rlVars, svcVars>>

\* Half a minute passes, while fewer than n have.
TickHalfMinuteUpTo(n) ==
    /\ now < n * (Minute \div 2)
    /\ now' = now + (Minute \div 2)
    /\ UNCHANGED <<maxCalls, windowDuration, cleanupInterval, callTimestamps,
                   lastCleanup, cache, call>>
    /\ UNCHANGED callerVars
    /\ UNCHANGED svcVars

\* Half a minute passes.
TickHalfMinute == TickHalfMinuteUpTo(MaxHalfMinutes)

\* GetPrices has returned to its caller.
Return ==
    /\ call.at = "done"
    /\ call' = [call EXCEPT !.at = "returned"]
    /\ UNCHANGED <<rlVars, cache, svcVars>>

\* ---------------------------------------------------- RateLimitedService

ErrProvider == "provider error"

\* The record of a RateLimitedService.GetPrices call that has not happened.
NoBatchedCall ==
    [at |-> "idle", tokens |-> <<>>, currency |-> "", maxBatchSize |-> 1, i |-> 0,
     batches |-> <<>>, results |-> EmptyMap, resultsNil |-> FALSE, err |-> NoErr,
     panicked |-> FALSE]

InitRateLimitedService == batched = NoBatchedCall

\* The token slices RateLimitedService.GetPrices is called with.
BatchedTokenLists == UNION {[1..n -> Tokens] : n \in 0..MaxBatchedTokens}

\* RateLimitedService.GetPrices, lines 1446-1451: tokens[i:end].
BatchTokens(tokens, i, maxBatchSize) ==
    LET end == IF i + maxBatchSize > Len(tokens) THEN Len(tokens) ELSE i + maxBatchSize
    IN  SubSeq(tokens, i + 1, end)

\* RateLimitedService.GetPrices, lines 1446-1451: tokens[i:end] panics when
\* end is below i; end is never above len(tokens).
BatchEnd(tokens, i, maxBatchSize) ==
    IF i + maxBatchSize > Len(tokens) THEN Len(tokens) ELSE i + maxBatchSize
SliceOutOfRange(tokens, i, maxBatchSize) == BatchEnd(tokens, i, maxBatchSize) < i

\* RateLimitedService.GetPrices, line 1455: the provider is called for a batch
\* when Allow returned nil.
ProviderCalledMutAlways(allowRet) == TRUE
ProviderCalled(allowRet) == allowRet = NoErr

\* RateLimitedService.GetPrices, lines 1457-1459: what is returned with the
\* provider's error (nil).
AbortResultsMutKeepEarlier(results) == results
AbortResults(results) == EmptyMap

\* RateLimitedService.GetPrices is entered: results is made, i is 0.
RateLimitedGetPrices(tokens, currency, maxBatchSize) ==
    /\ batched.at = "idle"
    /\ batched' = [NoBatchedCall EXCEPT !.at = "loop", !.tokens = tokens,
                                        !.currency = currency,
                                        !.maxBatchSize = maxBatchSize]
    /\ UNCHANGED <<rlVars, priceVars, valueVars, folioVars, txVars, moreVars>>

\* One turn of the loop, lines 1445-1467: the batch is cut, the limiter is
\* asked, the provider is called if it allows, and the call returns the
\* provider's error or merges the batch's prices and moves on.
RateLimitedBatch ==
    /\ batched.at = "loop"
    /\ batched.i < Len(batched.tokens)
    /\ Len(batched.batches) < MaxTurns
    /\ LET batchTokens == BatchTokens(batched.tokens, batched.i, batched.maxBatchSize)
       IN  IF SliceOutOfRange(batched.tokens, batched.i, batched.maxBatchSize)
           THEN batched' = [batched EXCEPT !.at = "panicked", !.panicked = TRUE]
           ELSE
           \E allowRet \in {NoErr, ErrRateLimitExceeded} :
           \E res \in (IF ProviderCalled(allowRet)
                       THEN ProviderAnswers(batchTokens, batched.currency, now, MockQuote)
                       ELSE {NotCalled}) :
               LET turn == [tokens |-> batchTokens, allowRet |-> allowRet,
                            called |-> ProviderCalled(allowRet),
                            err |-> res.err, prices |-> res.prices]
               IN  IF res.err
                   THEN batched' = [batched EXCEPT
                            !.at = "returned",
                            !.batches = Append(@, turn),
                            !.results = AbortResults(@),
                            !.resultsNil = TRUE,
                            !.err = ErrProvider]
                   ELSE batched' = [batched EXCEPT
                            !.i = @ + batched.maxBatchSize,
                            !.batches = Append(@, turn),
                            !.results = MergeFetched(@, res.prices)]
    /\ UNCHANGED <<rlVars, priceVars, valueVars, folioVars, txVars, moreVars>>

\* The loop is over, line 1469: results is returned with a nil error.
RateLimitedReturn ==
    /\ batched.at = "loop"
    /\ batched.i >= Len(batched.tokens)
    /\ batched' = [batched EXCEPT !.at = "returned"]
    /\ UNCHANGED <<rlVars, priceVars, valueVars, folioVars, txVars, moreVars>>

\* The caller is done with what RateLimitedService.GetPrices returned.
RateLimitedDone ==
    /\ batched.at \in {"returned", "panicked"}
    /\ batched' = NoBatchedCall
    /\ UNCHANGED <<rlVars, priceVars, valueVars, folioVars, txVars, moreVars>>

\* ---------------------------------------------------------------- big.Int

\* A natural number of any size is the sequence of its decimal digits, lowest
\* first, without leading zeros: 0 is <<>>, 120 is <<0, 2, 1>>.
RECURSIVE NatOfInt(_)
NatOfInt(n) == IF n = 0 THEN <<>> ELSE <<n % 10>> \o NatOfInt(n \div 10)

RECURSIVE IntOfNat(_)
IntOfNat(a) == IF a = <<>> THEN 0 ELSE Head(a) + 10 * IntOfNat(Tail(a))

\* a without the zeros at its high end.
Trim(a) ==
    LET nz == {i \in DOMAIN a : a[i] # 0}
    IN  IF nz = {} THEN <<>>
        ELSE SubSeq(a, 1, CHOOSE i \in nz : \A j \in nz : j <= i)

\* The digit of a at place i, 0 beyond its high end.
Digit(a, i) == IF i \in DOMAIN a THEN a[i] ELSE 0

\* -1, 0 or 1 as the lowest n digits of a are below, equal to or above those
\* of b.
LowCmp(a, b, n) ==
    LET differ == {i \in 1..n : Digit(a, i) # Digit(b, i)}
    IN  IF differ = {} THEN 0
        ELSE LET top == CHOOSE i \in differ : \A j \in differ : j <= i
             IN  IF Digit(a, top) < Digit(b, top) THEN -1 ELSE 1

\* -1, 0 or 1 as a is below, equal to or above b.
NatCmp(a, b) == LowCmp(a, b, IF Len(a) < Len(b) THEN Len(b) ELSE Len(a))

\* The carry into place i of a + b: some lower place overflows and every place
\* between passes the carry on.
CarryInto(a, b, i) ==
    IF \E j \in 1..(i - 1) :
           /\ Digit(a, j) + Digit(b, j) >= 10
           /\ \A k \in (j + 1)..(i - 1) : Digit(a, k) + Digit(b, k) = 9
    THEN 1 ELSE 0

NatAdd(a, b) ==
    LET n == (IF Len(a) < Len(b) THEN Len(b) ELSE Len(a)) + 1
    IN  Trim([i \in 1..n |-> (Digit(a, i) + Digit(b, i) + CarryInto(a, b, i)) % 10])

\* a - b for a >= b: place i borrows when the digits of a below it are less
\* than those of b.
NatSub(a, b) ==
    Trim([i \in 1..Len(a) |->
             (Digit(a, i) + 10 - Digit(b, i)
                 - (IF LowCmp(a, b, i - 1) < 0 THEN 1 ELSE 0)) % 10])

\* The sum of the digit products of a and b that fall on place k, over the
\* places of a from i down to lo.
RECURSIVE ColumnSum(_, _, _, _, _)
ColumnSum(a, b, k, i, lo) ==
    IF i < lo THEN 0 ELSE a[i] * b[k + 1 - i] + ColumnSum(a, b, k, i - 1, lo)

\* The digits of the product of a and b from place k up to place n, with the
\* carry that comes into place k.
RECURSIVE MulDigits(_, _, _, _, _)
MulDigits(a, b, k, n, carry) ==
    IF k > n THEN <<>>
    ELSE LET hi == IF k < Len(a) THEN k ELSE Len(a)
             lo == IF k + 1 - Len(b) > 1 THEN k + 1 - Len(b) ELSE 1
             t == ColumnSum(a, b, k, hi, lo) + carry
         IN  <<t % 10>> \o MulDigits(a, b, k + 1, n, t \div 10)

\* Schoolbook multiplication: the product of two numbers other than 0 has as
\* many digits as the two together, or one less.
NatMul(a, b) ==
    IF a = <<>> \/ b = <<>> THEN <<>>
    ELSE LET n == Len(a) + Len(b)
             digits == MulDigits(a, b, 1, n, 0)
         IN  IF digits[n] = 0 THEN SubSeq(digits, 1, n - 1) ELSE digits

\* 10^n.
NatExp10(n) == [i \in 1..(n + 1) |-> IF i = n + 1 THEN 1 ELSE 0]

\* a divided by 10^n, which drops its n low digits, and whether anything is
\* left over.
NatDivExp10(a, n) ==
    [q |-> IF Len(a) <= n THEN <<>> ELSE SubSeq(a, n + 1, Len(a)),
     exact |-> \A i \in 1..n : Digit(a, i) = 0]

\* A *big.Int: a nil pointer, or a sign and a magnitude.
NilInt == [nil |-> TRUE, sign |-> 0, mag |-> <<>>]
BigOfNat(sign, mag) == [nil |-> FALSE, sign |-> IF mag = <<>> THEN 0 ELSE sign, mag |-> mag]
NewInt(n) == BigOfNat(IF n < 0 THEN -1 ELSE 1, NatOfInt(IF n < 0 THEN -n ELSE n))
Int64(x) == x.sign * IntOfNat(x.mag)

\* big.Int.Mul
BigMul(x, y) == BigOfNat(x.sign * y.sign, NatMul(x.mag, y.mag))

\* x.Div(x, 10^n), with the truncating Quo in place of the Euclidean Div.
BigDivExp10MutQuo(x, n) == BigOfNat(x.sign, NatDivExp10(x.mag, n).q)

\* x.Div(x, divisor) for the divisor Exp(10, n): Euclidean division, whose
\* remainder is never negative, so that the quotient of a negative x that is
\* no multiple of the divisor lies one further from zero.
BigDivExp10(x, n) ==
    LET d == NatDivExp10(x.mag, n)
    IN  IF x.sign < 0 /\ ~d.exact
        THEN BigOfNat(-1, NatAdd(d.q, <<1>>))
        ELSE BigOfNat(x.sign, d.q)

\* big.Int.Add
BigAdd(x, y) ==
    IF x.sign = 0 THEN y
    ELSE IF y.sign = 0 THEN x
    ELSE IF x.sign = y.sign THEN BigOfNat(x.sign, NatAdd(x.mag, y.mag))
    ELSE IF NatCmp(x.mag, y.mag) >= 0 THEN BigOfNat(x.sign, NatSub(x.mag, y.mag))
    ELSE BigOfNat(y.sign, NatSub(y.mag, x.mag))

\* big.Int.Sub
BigSub(x, y) == BigAdd(x, BigOfNat(-y.sign, y.mag))

\* -------------------------------------------------------- CalculateValue

\* A *price.Price: a nil pointer, or a price whose Value may itself be nil.
NilPrice == [nil |-> TRUE, Value |-> NilInt]
PriceOf(value) == [nil |-> FALSE, Value |-> value]

\* CalculateValue, line 24: the result is nil when a pointer is nil.
MissingFieldMutZeroFirst(amount, priceValue) ==
    (amount.nil \/ priceValue.nil \/ priceValue.Value.nil) /\ ~(~amount.nil /\ amount.sign = 0)
MissingField(amount, priceValue) == amount.nil \/ priceValue.nil \/ priceValue.Value.nil

\* portfolio.CalculateValue
CalculateValue(decimals, amount, priceValue) ==
    IF MissingField(amount, priceValue) THEN NilInt
    ELSE IF amount.sign = 0 THEN NewInt(0)
    ELSE BigDivExp10(BigMul(amount, priceValue.Value), decimals)

\* Decimal of the ETH token GetPortfolioAssets builds.
EthDecimal == 18

\* 0.5 ETH in wei, and 3000.00 USD at 8 decimals.
HalfEther == BigOfNat(1, NatMul(<<5>>, NatExp10(17)))
ThreeThousandUSD == BigOfNat(1, NatMul(<<3>>, NatExp10(11)))

\* The arguments CalculateValue is called with.
ValueDecimals == (0..MaxDecimals) \cup {EthDecimal}
ValueAmounts == {NilInt, HalfEther} \cup {NewInt(n) : n \in (-MaxAmount)..MaxAmount}
ValuePrices == {NilPrice, PriceOf(NilInt), PriceOf(ThreeThousandUSD)}
                   \cup {PriceOf(NewInt(n)) : n \in 0..MaxPriceValue}

NoValued == [at |-> "idle", decimals |-> 0, amount |-> NilInt, priceValue |-> NilPrice,
             value |-> NilInt]

\* A caller has its arguments ready.
InitValued ==
    \E d \in ValueDecimals, a \in ValueAmounts, p \in ValuePrices :
        valued = [NoValued EXCEPT !.at = "args", !.decimals = d, !.amount = a,
                                  !.priceValue = p]

\* The caller calls CalculateValue.
CalculateValueCall ==
    /\ valued.at = "args"
    /\ valued' = [valued EXCEPT
           !.at = "done",
           !.value = CalculateValue(valued.decimals, valued.amount, valued.priceValue)]
    /\ UNCHANGED <<rlVars, priceVars, batched, folioVars, txVars, moreVars>>

\* ------------------------------------------------------ GetPortfolioAssets

\* token.ZeroAddress, the key of the native asset.
ZeroAddress == "0x0000000000000000000000000000000000000"

\* The address of the portfolio, of a counterparty, and of the USDC contract as
\* holdings store it and as the chain provider reports it.
PortfolioAddress == "0xMe"
OtherAddress == "0xother"
USDCStored == "0xA0B8"

\* strings.ToLower on an address.
ToLower(a) ==
    CASE a = "0xMe" -> "0xme"
      [] a = "0xA0B8" -> "0xa0b8"
      [] a = "0x38ED1739" -> "0x38ed1739"
      [] a = "swapExactTokensForTokens" -> "swapexacttokensfortokens"
      [] a = "Stake" -> "stake"
      [] a = "ETH" -> "eth"
      [] a = "USDC" -> "usdc"
      [] OTHER -> a

\* strings.EqualFold
EqualFold(a, b) == ToLower(a) = ToLower(b)

\* The token the repository knows at the USDC address, and the token
\* GetPortfolioAssets builds for the native asset.
USDCToken == [ID |-> "usd-coin", Name |-> "USD Coin", Symbol |-> "USDC",
              Address |-> USDCAddress, Decimal |-> 6]
EthToken == [ID |-> "ethereum", Name |-> "Ethereum", Symbol |-> "ETH",
             Address |-> WETHAddress, Decimal |-> EthDecimal]

\* The stored holdings a portfolio may have: token address and amount.
HoldingChoices ==
    {[Address |-> USDCStored, Amount |-> 1000000],
     [Address |-> USDCStored, Amount |-> 200000],
     [Address |-> ZeroAddress, Amount |-> 1000000]}

\* A transaction as the chain provider returns it, its direction not yet set.
Tx(from, to, tokenAddress, amount) ==
    [nil |-> FALSE, From |-> from, To |-> to, TokenAddress |-> tokenAddress,
     AmountNil |-> FALSE, Amount |-> amount, Direction |-> ""]

\* The token transfers and the internal (native) transfers a fetch may return.
TokenTxChoices ==
    {Tx(OtherAddress, "0xme", USDCAddress, 500000),
     Tx("0xme", OtherAddress, USDCAddress, 200000),
     Tx("0xme", "0xme", USDCAddress, 500000)}
InternalTxChoices ==
    {Tx(OtherAddress, "0xme", "", 500000),
     Tx("0xme", OtherAddress, "", 200000)}

\* The live native balances the chain provider may report.
NativeBalances == {0, 3000000}

SeqsUpTo(S, n) == UNION {[1..k -> S] : k \in 0..n}

\* Transaction.SetDirectionForAddress
SetDirectionForAddress(tx, address) ==
    LET addr == ToLower(address)
        from == ToLower(tx.From)
        to == ToLower(tx.To)
    IN  IF from = addr /\ to # addr THEN [tx EXCEPT !.Direction = "out"]
        ELSE IF to = addr /\ from # addr THEN [tx EXCEPT !.Direction = "in"]
        ELSE tx

\* CalculateTokensAmounts, lines 120-127: a nil transaction, a transaction
\* without amount and a transaction without direction are passed over.
CountedMutDirectionIgnored(tx) == ~tx.nil /\ ~tx.AmountNil
Counted(tx) == ~tx.nil /\ ~tx.AmountNil /\ tx.Direction # ""

\* Transactions.CalculateTokensAmounts: the net amount per lower-cased token
\* address, "" for the native token.
RECURSIVE CalculateTokensAmounts(_)
CalculateTokensAmounts(ts) ==
    IF ts = <<>> THEN EmptyMap
    ELSE LET before == CalculateTokensAmounts(SubSeq(ts, 1, Len(ts) - 1))
             tx == ts[Len(ts)]
             tokenKey == ToLower(tx.TokenAddress)
             sofar == IF tokenKey \in DOMAIN before THEN before[tokenKey] ELSE 0
             after == IF tx.Direction = "in" THEN sofar + tx.Amount
                      ELSE IF tx.Direction = "out" THEN sofar - tx.Amount
                      ELSE sofar
         IN  IF ~Counted(tx) THEN before
             ELSE [k \in DOMAIN before \cup {tokenKey} |->
                      IF k = tokenKey THEN after ELSE before[k]]

\* GetPortfolioAssets, lines 358-373: the holdings summed per lower-cased
\* token address.
RECURSIVE AddHoldings(_)
AddHoldings(holdings) ==
    IF holdings = <<>> THEN EmptyMap
    ELSE LET before == AddHoldings(SubSeq(holdings, 1, Len(holdings) - 1))
             holding == holdings[Len(holdings)]
             tokenAddr == ToLower(holding.Address)
         IN  [k \in DOMAIN before \cup {tokenAddr} |->
                 IF k = tokenAddr
                 THEN (IF k \in DOMAIN before THEN before[k] ELSE 0) + holding.Amount
                 ELSE before[k]]

\* GetPortfolioAssets, lines 376-379: the transaction balance under the key ""
\* is passed over.
TxBalanceUsedMutNativeToo(tokenAddr) == TRUE
TxBalanceUsed(tokenAddr) == tokenAddr # ""

\* GetPortfolioAssets, lines 376-386: the transaction balances added, each
\* under its own key.
AddTxBalances(aggregated, txBalances) ==
    LET used == {a \in DOMAIN txBalances : TxBalanceUsed(a)}
    IN  [k \in DOMAIN aggregated \cup used |->
            (IF k \in DOMAIN aggregated THEN aggregated[k] ELSE 0)
            + (IF k \in used THEN txBalances[k] ELSE 0)]

\* GetPortfolioAssets, line 388: the live balance replaces the native entry.
LiveBalanceUsed(native) == ~native.err /\ native.value > 0

\* GetPortfolioAssets, lines 388-390
OverwriteNative(aggregated, native) ==
    IF LiveBalanceUsed(native)
    THEN [k \in DOMAIN aggregated \cup {ZeroAddress} |->
             IF k = ZeroAddress THEN native.value ELSE aggregated[k]]
    ELSE aggregated

\* GetPortfolioAssets, line 395: the balances that are kept.
KeptMutNonNegative(balance) == balance >= 0
Kept(balance) == balance > 0

\* GetPortfolioAssets, lines 393-398
FilterBalances(aggregated) ==
    [k \in {a \in DOMAIN aggregated : Kept(aggregated[a])} |-> aggregated[k]]

\* What a fetch of transactions may return: an error, or transactions.
TxFetches(choices, n) ==
    {[err |-> TRUE, txs |-> <<>>]} \cup {[err |-> FALSE, txs |-> ts] : ts \in SeqsUpTo(choices, n)}

\* What GetNativeBalance may return: an error, or a balance.
NativeFetches ==
    {[err |-> TRUE, value |-> 0]} \cup {[err |-> FALSE, value |-> v] : v \in NativeBalances}

\* GetPortfolioAssets, lines 310-324: a failed fetch of transactions counts as
\* no transactions.
TxFetchFatalMutFails(fetch) == fetch.err
TxFetchFatal(fetch) == FALSE
FetchedTxs(fetch) == IF fetch.err THEN <<>> ELSE fetch.txs

\* GetPortfolioAssets, lines 439-443: a failed price call ends the call.
PriceFetchFatalMutSwallowed(fetch) == FALSE
PriceFetchFatal(fetch) == fetch.err

\* GetPortfolioAssets, lines 456-459: the token as the asset carries it.
AssetToken(tok) == IF tok.Name = "ETH" THEN [tok EXCEPT !.Address = ZeroAddress] ELSE tok

\* GetPortfolioAssets, lines 462-469: the prices whose token has the address
\* of the asset's token.
MatchingPrices(tok, tokensForPricing, pricesMap) ==
    {pricesMap[pt.ID] : pt \in {x \in tokensForPricing :
                                   /\ x.ID \in DOMAIN pricesMap
                                   /\ EqualFold(AssetToken(x).Address, AssetToken(tok).Address)}}

\* GetPortfolioAssets, lines 471-483: a token without a price is reported.
UnpricedReportedMutOmitted(tok) == FALSE
UnpricedReported(tok) == TRUE

\* GetPortfolioAssets, lines 473-479 and 488-494: the asset of a balance.
AssetOf(tok, balance, assetPrice) ==
    [Token |-> AssetToken(tok), Amount |-> balance, Price |-> assetPrice,
     Value |-> IF assetPrice.nil THEN NilInt
               ELSE CalculateValue(tok.Decimal, NewInt(balance), assetPrice),
     Source |-> "aggregated"]

ErrPortfolioNotFound == "portfolio not found"
ErrRepository == "repository error"
ErrTransactions == "transactions unavailable"

\* The record of a GetPortfolioAssets call that has not happened.
NoFolio ==
    [at |-> "idle", repoErr |-> NoErr, holdings |-> <<>>, tokenTxs |-> [err |-> FALSE, txs |-> <<>>],
     internalTxs |-> [err |-> FALSE, txs |-> <<>>], native |-> [err |-> TRUE, value |-> 0],
     known |-> {}, priced |-> [err |-> FALSE, prices |-> EmptyMap], priceCalls |-> 0,
     txBalances |-> EmptyMap, beforeLive |-> EmptyMap, aggregated |-> EmptyMap,
     assets |-> EmptyMap, portfolioNil |-> TRUE, assetsNil |-> TRUE, err |-> NoErr]

InitPortfolioService == folio = NoFolio

\* The error the repository returns for an id it does not have:
\* ErrPortfolioNotFound wrapped with the id.
ErrNotFoundWrapped == "portfolio not found: portfolio_id=p1"

\* The errors GetByIDWithHoldings may return.
RepositoryErrors == {ErrNotFoundWrapped, ErrRepository}

\* errors.Is(err, target): err is target or wraps it.
ErrorsIs(err, target) ==
    \/ err = target
    \/ err = ErrNotFoundWrapped /\ target = ErrPortfolioNotFound

\* GetPortfolioAssets, lines 294-300: the error returned for an error of the
\* repository.
LoadErrorMutAsReceived(repoErr) == repoErr
LoadError(repoErr) ==
    IF ErrorsIs(repoErr, ErrPortfolioNotFound) THEN ErrPortfolioNotFound ELSE repoErr

\* Service.GetPortfolioAssets when the portfolio repository fails, lines
\* 293-301.
GetPortfolioAssetsNoPortfolio(repoErr) ==
    /\ folio.at = "idle"
    /\ folio' = [NoFolio EXCEPT !.at = "done", !.repoErr = repoErr,
                                !.err = LoadError(repoErr)]
    /\ UNCHANGED <<rlVars, priceVars, batched, valueVars, txVars, moreVars>>

\* The token object of the price service for a token GetPortfolioAssets asks
\* a price of, and the ID of the token of such an object.
PriceToken(tok) == IF tok.ID = EthToken.ID THEN "eth" ELSE "usdc"
TokenIDOf(tk) == IF tk = "eth" THEN EthToken.ID ELSE USDCToken.ID

\* GetPortfolioAssets, lines 358-398: the balances left after the holdings,
\* the transactions and the live balance are put together.
FilteredBalances(holdings, tokenTxs, internalTxs, native) ==
    LET fetched == FetchedTxs(tokenTxs) \o FetchedTxs(internalTxs)
        allTransactions ==
            [i \in 1..Len(fetched) |-> SetDirectionForAddress(fetched[i], PortfolioAddress)]
    IN  FilterBalances(OverwriteNative(
            AddTxBalances(AddHoldings(holdings), CalculateTokensAmounts(allTransactions)),
            native))

\* GetPortfolioAssets, lines 400-437: tokensForPricing, the tokens the token
\* repository knows followed by the ETH token.
TokensForPricing(filteredBalances, known) ==
    (IF USDCAddress \in DOMAIN filteredBalances \cap known THEN <<USDCToken>> ELSE <<>>)
        \o (IF ZeroAddress \in DOMAIN filteredBalances THEN <<EthToken>> ELSE <<>>)

\* GetPortfolioAssets, lines 439-443: pricesMap and err as the price service
\* returned them, the prices by the ID of their token.
PricesReturned(c) ==
    [err |-> c.err # NoErr,
     prices |-> [id \in {TokenIDOf(tk) : tk \in DOMAIN c.results} |->
                    PriceOf(NewInt(c.results[CHOOSE tk \in DOMAIN c.results :
                                                 TokenIDOf(tk) = id].Value))]]

\* What Service.GetPortfolioAssets returns for a portfolio with the given
\* holdings, with what the transaction provider and the token repository
\* answer and with what the price service returned: the records of the call,
\* one for each order the loop over pricesMap may take, and the error of the
\* price service when it failed.
GetPortfolioAssetsReturns(holdings, tokenTxs, internalTxs, native, known, priced, priceErr) ==
    LET given == [NoFolio EXCEPT !.at = "done", !.holdings = holdings,
                     !.tokenTxs = tokenTxs, !.internalTxs = internalTxs,
                     !.native = native, !.known = known]
        fetched == FetchedTxs(tokenTxs) \o FetchedTxs(internalTxs)
        allTransactions ==
            [i \in 1..Len(fetched) |-> SetDirectionForAddress(fetched[i], PortfolioAddress)]
        txBalances == CalculateTokensAmounts(allTransactions)
        beforeLive == AddTxBalances(AddHoldings(holdings), txBalances)
        aggregated == OverwriteNative(beforeLive, native)
        filteredBalances == FilterBalances(aggregated)
        tokenAddresses == {a \in DOMAIN filteredBalances : a # ""}
        tokensMap == [a \in tokenAddresses \cap known |-> USDCToken]
        hasETH == ZeroAddress \in DOMAIN filteredBalances
        tokensForPricing == {tokensMap[a] : a \in DOMAIN tokensMap}
                                \cup (IF hasETH THEN {EthToken} ELSE {})
        tokenAddressToToken ==
            [a \in DOMAIN tokensMap \cup (IF hasETH THEN {ZeroAddress} ELSE {}) |->
                IF a = ZeroAddress /\ hasETH THEN EthToken ELSE tokensMap[a]]
        computed == [given EXCEPT !.txBalances = txBalances,
                        !.beforeLive = beforeLive, !.aggregated = aggregated]
        \* lines 446-501: the assets built with the prices returned.
        Built ==
            LET Matching(a) == MatchingPrices(tokenAddressToToken[a],
                                              tokensForPricing, priced.prices)
                reported == {a \in DOMAIN filteredBalances \cap DOMAIN tokenAddressToToken :
                                Matching(a) # {} \/ UnpricedReported(tokenAddressToToken[a])}
                picks == {pick \in [reported -> {NilPrice} \cup Range(priced.prices)] :
                             \A a \in reported :
                                 IF Matching(a) = {} THEN pick[a] = NilPrice
                                                     ELSE pick[a] \in Matching(a)}
            IN  {[computed EXCEPT
                     !.priced = priced, !.priceCalls = 1,
                     !.portfolioNil = FALSE, !.assetsNil = FALSE,
                     !.assets = [a \in reported |->
                                    AssetOf(tokenAddressToToken[a],
                                            filteredBalances[a], pick[a])]] : pick \in picks}
    IN  IF PriceFetchFatal(priced)
        THEN \* lines 439-443
             {[computed EXCEPT !.priced = priced, !.priceCalls = 1, !.err = priceErr]}
        ELSE Built

\* Service.GetPortfolioAssets for a portfolio that the repository has, lines
\* 286-439: the transactions and the live balance are fetched, the balances
\* put together and s.priceProvider.GetPrices, the price service as main.go
\* wires it, is called with tokensForPricing.
GetPortfolioAssets(holdings, tokenTxs, internalTxs, native, known, currency) ==
    /\ folio.at = "idle"
    /\ call = NoCall
    /\ LET given == [NoFolio EXCEPT !.holdings = holdings,
                        !.tokenTxs = tokenTxs, !.internalTxs = internalTxs,
                        !.native = native, !.known = known]
           tokensForPricing ==
               TokensForPricing(FilteredBalances(holdings, tokenTxs, internalTxs, native),
                                known)
       IN  IF TxFetchFatal(tokenTxs) \/ TxFetchFatal(internalTxs)
           THEN /\ folio' = [given EXCEPT !.at = "done", !.err = ErrTransactions]
                /\ UNCHANGED <<rlVars, priceVars>>
           ELSE /\ folio' = [given EXCEPT !.at = "pricing", !.priceCalls = 1]
                /\ GetPricesEntered([i \in DOMAIN tokensForPricing |->
                                        PriceToken(tokensForPricing[i])], currency, 1)
    /\ UNCHANGED <<batched, valueVars, txVars, moreVars>>

\* Service.GetPortfolioAssets, lines 439-501: the price service has returned;
\* its error ends the call, its prices make the assets.
GetPortfolioAssetsPriced ==
    /\ folio.at = "pricing"
    /\ call.at = "done"
    /\ folio' \in GetPortfolioAssetsReturns(folio.holdings, folio.tokenTxs,
                                            folio.internalTxs, folio.native, folio.known,
                                            PricesReturned(call), call.err)
    /\ call' = [call EXCEPT !.at = "returned"]
    /\ UNCHANGED <<rlVars, cache, batched, valueVars, txVars, moreVars>>

\* The caller is done with what GetPortfolioAssets returned.
PortfolioDone ==
    /\ folio.at = "done"
    /\ folio' = NoFolio
    /\ UNCHANGED <<rlVars, priceVars, batched, valueVars, txVars, moreVars>>

\* -------------------------------------------- CalculateTokensAmounts alone

\* A nil *Transaction, and a transaction of the portfolio's address.
NilTx ==
    [nil |-> TRUE, From |-> "", To |-> "", TokenAddress |-> "", AmountNil |-> TRUE,
     Amount |-> 0, Direction |-> ""]
DirectedTx(tokenAddress, amountNil, amount, direction) ==
    [nil |-> FALSE, From |-> OtherAddress, To |-> OtherAddress,
     TokenAddress |-> tokenAddress, AmountNil |-> amountNil, Amount |-> amount,
     Direction |-> direction]

\* The transactions CalculateTokensAmounts is called on: of the native token
\* and of one contract, with an amount of 100, of 40 or none, with and
\* without direction; one names the contract in lower case.
ReducedTxChoices ==
    {NilTx, DirectedTx(USDCAddress, FALSE, 100, "in")}
        \cup {DirectedTx(a, FALSE, n, d) :
                 a \in {"", USDCStored}, n \in {100, 40}, d \in {"", "in", "out"}}
        \cup {DirectedTx(a, TRUE, 0, d) : a \in {"", USDCStored}, d \in {"", "in", "out"}}

NoReduced == [at |-> "idle", tsNil |-> TRUE, ts |-> <<>>, balances |-> EmptyMap, err |-> NoErr]

\* A caller has its transactions ready: a nil *Transactions, or a slice.
InitReduced ==
    \/ reduced = [NoReduced EXCEPT !.at = "args"]
    \/ \E ts \in SeqsUpTo(ReducedTxChoices, MaxReducedTxs) :
          reduced = [NoReduced EXCEPT !.at = "args", !.tsNil = FALSE, !.ts = ts]

\* ts.CalculateTokensAmounts()
CalculateTokensAmountsCall ==
    /\ reduced.at = "args"
    /\ reduced' = [reduced EXCEPT
           !.at = "done",
           !.balances = IF reduced.tsNil THEN EmptyMap
                        ELSE CalculateTokensAmounts(reduced.ts)]
    /\ UNCHANGED <<rlVars, priceVars, batched, valueVars, folioVars, listing, classified, moreVars>>

\* --------------------------------------------------- TransactionsByAddress

\* Go's int on a 64-bit build: eight bytes, lowest first, in two's complement.
\* Sums, differences and products keep the low 64 bits.
WordBytes == 8
Byte == 256

\* The bytes of a natural number below 2^31, and of an int of that size.
RECURSIVE BytesOfNat(_, _)
BytesOfNat(n, k) ==
    IF k = 0 THEN <<>> ELSE <<n % Byte>> \o BytesOfNat(n \div Byte, k - 1)

WordOfInt(n) ==
    IF n >= 0 THEN BytesOfNat(n, WordBytes)
    ELSE LET m == BytesOfNat((-n) - 1, WordBytes)
         IN  [i \in 1..WordBytes |-> (Byte - 1) - m[i]]

\* math.MaxInt64 and math.MinInt64
MaxInt64 == [i \in 1..WordBytes |-> IF i = WordBytes THEN 127 ELSE 255]
MinInt64 == [i \in 1..WordBytes |-> IF i = WordBytes THEN 128 ELSE 0]

WordNegative(a) == a[WordBytes] >= 128

\* a < b as signed 64-bit values.
WordLess(a, b) ==
    IF WordNegative(a) # WordNegative(b) THEN WordNegative(a)
    ELSE \E i \in 1..WordBytes :
            /\ a[i] < b[i]
            /\ \A j \in (i + 1)..WordBytes : a[j] = b[j]

\* a + b and a - b in 64 bits, byte by byte with carry and borrow.
RECURSIVE WordAddFrom(_, _, _, _)
WordAddFrom(a, b, k, carry) ==
    IF k > WordBytes THEN <<>>
    ELSE LET s == a[k] + b[k] + carry
         IN  <<s % Byte>> \o WordAddFrom(a, b, k + 1, s \div Byte)
WordAdd(a, b) == WordAddFrom(a, b, 1, 0)

WordSub(a, b) ==
    WordAddFrom(a, [i \in 1..WordBytes |-> (Byte - 1) - b[i]], 1, 1)

\* a * b in 64 bits: the column sums of the byte products, carried upward,
\* the bytes above the eighth dropped.
RECURSIVE WordColumn(_, _, _, _)
WordColumn(a, b, k, i) ==
    IF i > k THEN 0 ELSE a[i] * b[k + 1 - i] + WordColumn(a, b, k, i + 1)

RECURSIVE WordMulFrom(_, _, _, _)
WordMulFrom(a, b, k, carry) ==
    IF k > WordBytes THEN <<>>
    ELSE LET s == WordColumn(a, b, k, 1) + carry
         IN  <<s % Byte>> \o WordMulFrom(a, b, k + 1, s \div Byte)
WordMul(a, b) == WordMulFrom(a, b, 1, 0)

\* The value of a word that is an index into a slice of the model.
IntOfWord(a) == a[1] + Byte * a[2]

\* strings.TrimSpace on an address or a token filter.
TrimSpace(s) ==
    CASE s = " 0xMe " -> "0xMe"
      [] s = " " -> ""
      [] OTHER -> s

\* strings.Contains(s, sub) on the lower-cased method names of the model.
Contains(s, sub) ==
    \/ sub = ""
    \/ s = sub
    \/ s = "swapexacttokensfortokens" /\ sub = "swap"

\* A transaction as the chain provider returns it to the transaction
\* service: a nil pointer, or the fields TransactionsByAddress reads.
NilListed ==
    [nil |-> TRUE, Hash |-> "", From |-> "", To |-> "", TokenAddress |-> "",
     TokenSymbol |-> "", Type |-> "", Status |-> "", Method |-> "", MethodSig |-> "",
     Direction |-> "", Timestamp |-> 0]
Listed(hash, from, to, timestamp) ==
    [NilListed EXCEPT !.nil = FALSE, !.Hash = hash, !.From = from, !.To = to,
                      !.Status = "success", !.Timestamp = timestamp]

\* FilterOptions: a nil pointer filter is not set; Page and PageSize are ints.
NoFilter ==
    [TypeNil |-> TRUE, Type |-> "", StatusNil |-> TRUE, Status |-> "",
     TokenNil |-> TRUE, Token |-> "", DirectionNil |-> TRUE, Direction |-> "",
     FromDateNil |-> TRUE, FromDate |-> 0, ToDateNil |-> TRUE, ToDate |-> 0,
     Page |-> WordOfInt(0), PageSize |-> WordOfInt(0)]

\* isSwap, lines 183-205
SwapSigs == {"0x38ed1739", "0x18cbafe5", "0x7ff36ab5", "0x8803dbee", "0xfb3bdb41"}
isSwap(methodSig, methodName) ==
    IF methodSig = "" /\ methodName = "" THEN FALSE
    ELSE methodSig \in SwapSigs \/ Contains(methodName, "swap")

\* isStake, lines 208-220
isStake(methodSig, methodName) ==
    IF methodSig = "" /\ methodName = "" THEN FALSE
    ELSE \/ Contains(methodName, "stake")
         \/ Contains(methodName, "deposit")
         \/ Contains(methodName, "enterstaking")

\* enrichTransaction, lines 129-137: the type a transaction without type gets
\* from its direction.
DefaultType(tx) ==
    IF tx.Type # "" THEN tx.Type
    ELSE IF tx.Direction = "out" THEN "send"
    ELSE IF tx.Direction = "in" THEN "receive"
    ELSE ""

\* Service.enrichTransaction
enrichTransaction(tx, address) ==
    IF tx.nil THEN tx
    ELSE LET directed == SetDirectionForAddress(tx, address)
             typed == [directed EXCEPT !.Type = DefaultType(directed)]
             methodSig == ToLower(tx.MethodSig)
             methodName == ToLower(tx.Method)
         IN  IF isSwap(methodSig, methodName) THEN [typed EXCEPT !.Type = "swap"]
             ELSE IF isStake(methodSig, methodName) THEN [typed EXCEPT !.Type = "stake"]
             ELSE typed

\* time.Time.Before, and the date tests of matchesFilter, lines 171-177.
Before(ts, cutoff) == ts < cutoff
FromDateKeeps(tx, opts) == opts.FromDateNil \/ ~Before(tx.Timestamp, opts.FromDate)
ToDateKeepsMutExclusive(tx, opts) == opts.ToDateNil \/ Before(tx.Timestamp, opts.ToDate)
ToDateKeeps(tx, opts) == opts.ToDateNil \/ ~After(tx.Timestamp, opts.ToDate)

\* matchesFilter
matchesFilter(tx, opts) ==
    IF tx.nil THEN FALSE
    ELSE IF ~opts.TypeNil /\ tx.Type # opts.Type THEN FALSE
    ELSE IF ~opts.StatusNil /\ tx.Status # opts.Status THEN FALSE
    ELSE IF /\ ~opts.TokenNil
            /\ ToLower(TrimSpace(opts.Token)) # ""
            /\ ToLower(tx.TokenAddress) # ToLower(TrimSpace(opts.Token)) THEN FALSE
    ELSE IF ~opts.DirectionNil /\ tx.Direction # opts.Direction THEN FALSE
    ELSE IF ~FromDateKeeps(tx, opts) THEN FALSE
    ELSE IF ~ToDateKeeps(tx, opts) THEN FALSE
    ELSE TRUE

\* TransactionsByAddress, lines 82-88: every fetched transaction enriched,
\* those that match the filter kept in the order of the fetch.
RECURSIVE EnrichAndFilter(_, _, _)
EnrichAndFilter(all, address, opts) ==
    IF all = <<>> THEN <<>>
    ELSE LET tx == enrichTransaction(Head(all), address)
             rest == EnrichAndFilter(Tail(all), address, opts)
         IN  IF matchesFilter(tx, opts) THEN <<tx>> \o rest ELSE rest

\* The comparison TransactionsByAddress sorts by, lines 91-93: a goes before
\* b when it is the later of the two.
SortLess(a, b) == After(a.Timestamp, b.Timestamp)

\* Insertion sort: x moved down past every transaction it goes before.
RECURSIVE InsertSorted(_, _)
InsertSorted(sorted, x) ==
    IF sorted # <<>> /\ SortLess(x, sorted[Len(sorted)])
    THEN InsertSorted(SubSeq(sorted, 1, Len(sorted) - 1), x) \o <<sorted[Len(sorted)]>>
    ELSE sorted \o <<x>>

RECURSIVE InsertionSort(_)
InsertionSort(ts) ==
    IF ts = <<>> THEN <<>>
    ELSE InsertSorted(InsertionSort(SubSeq(ts, 1, Len(ts) - 1)), ts[Len(ts)])

\* Every order of the transactions at the places in rest in which none comes
\* after one it goes before.
RECURSIVE SortedOrders(_, _)
SortedOrders(ts, rest) ==
    IF rest = {} THEN {<<>>}
    ELSE LET first == {i \in rest : \A j \in rest : ~SortLess(ts[j], ts[i])}
         IN  UNION {{<<ts[i]>> \o o : o \in SortedOrders(ts, rest \ {i})} : i \in first}

\* sort.Slice sorts a slice of at most twelve elements by insertion; above
\* that it partitions, and is not guaranteed to keep equal elements in their
\* original order.
MaxInsertion == 12
SortSliceMutUnsorted(ts) == {ts}
SortSlice(ts) ==
    IF Len(ts) <= MaxInsertion THEN {InsertionSort(ts)}
    ELSE SortedOrders(ts, DOMAIN ts)

\* TransactionsByAddress, lines 96-103: page and page size as used.
One == WordOfInt(1)
Zero == WordOfInt(0)
PageUsed(opts) == IF WordLess(Zero, opts.Page) THEN opts.Page ELSE One
PageSizeUsed(opts, len) == IF WordLess(Zero, opts.PageSize) THEN opts.PageSize ELSE len

\* TransactionsByAddress, line 105
PageStart(page, pageSize) == WordMul(WordSub(page, One), pageSize)

\* The bit i, counted from the lowest, of a word.
WordBit(a, i) == (a[(i \div 8) + 1] \div (2 ^ (i % 8))) % 2

\* a < b as unsigned 64-bit values.
WordBelow(a, b) ==
    \E i \in 1..WordBytes :
        /\ a[i] < b[i]
        /\ \A j \in (i + 1)..WordBytes : a[j] = b[j]

\* The quotient of the unsigned words u and v, 0 < v < 2^63, by long division
\* from bit i down: r is the remainder and q the quotient so far; s is the
\* remainder shifted with bit i of u, d the quotient shifted.
RECURSIVE WordQuoFrom(_, _, _, _, _)
WordQuoFrom(u, v, i, r, q) ==
    IF i < 0 THEN q
    ELSE CHOOSE quo \in
             {WordQuoFrom(u, v, i - 1, next[1], next[2]) :
                 next \in {LET s == WordAdd(WordAdd(r, r), WordOfInt(WordBit(u, i)))
                               d == WordAdd(q, q)
                           IN  IF WordBelow(s, v) THEN <<s, d>>
                               ELSE <<WordSub(s, v), WordAdd(d, WordOfInt(1))>>}} : TRUE

\* The highest bit of a word that is set, -1 for zero.
HighBit(a) ==
    IF \A k \in 1..WordBytes : a[k] = 0 THEN -1
    ELSE LET top == CHOOSE k \in 1..WordBytes :
                        a[k] # 0 /\ \A j \in (k + 1)..WordBytes : a[j] = 0
             bit == CHOOSE n \in 0..7 : 2 ^ n <= a[top] /\ a[top] < 2 ^ (n + 1)
         IN  8 * (top - 1) + bit

\* a / b of Go on ints, for b > 0: the quotient truncated toward zero.
WordQuo(a, b) ==
    CHOOSE quo \in
        {IF WordNegative(a) THEN WordSub(Zero, WordQuoFrom(x, y, HighBit(x), Zero, Zero))
                            ELSE WordQuoFrom(x, y, HighBit(x), Zero, Zero) :
            x \in {IF WordNegative(a) THEN WordSub(Zero, a) ELSE a}, y \in {b}} : TRUE

\* TransactionsByAddress, lines 95-114: the page of the sorted transactions,
\* or the panic of a slice expression whose bounds are out of range.
Paginate(filtered, opts) ==
    LET len == WordOfInt(Len(filtered))
        page == PageUsed(opts)
        pageSize == PageSizeUsed(opts, len)
        start == PageStart(page, pageSize)
        sum == WordAdd(start, pageSize)
        end == IF WordLess(len, sum) THEN len ELSE sum
    IN  IF ~WordLess(start, len) THEN [panicked |-> FALSE, page |-> <<>>]
        ELSE IF WordNegative(start) \/ WordLess(end, start)
        THEN [panicked |-> TRUE, page |-> <<>>]
        ELSE [panicked |-> FALSE,
              page |-> SubSeq(filtered, IntOfWord(start) + 1, IntOfWord(end))]

ErrNative == "native transactions unavailable"
ErrInternal == "internal transactions unavailable"
ErrTokenTxs == "token transactions unavailable"

\* The record of a TransactionsByAddress call that has not happened.
NoFetch == [err |-> FALSE, txs |-> <<>>]
NoListing ==
    [at |-> "idle", address |-> "", nativeTxs |-> NoFetch, internalTxs |-> NoFetch,
     tokenTxs |-> NoFetch, opts |-> NoFilter, all |-> <<>>, enriched |-> <<>>,
     filtered |-> <<>>, sorted |-> <<>>, page |-> <<>>, pageNil |-> TRUE,
     err |-> NoErr, panicked |-> FALSE]

\* Service.TransactionsByAddress: what the call may return or do.
TransactionsByAddressReturns(address, nativeTxs, internalTxs, tokenTxs, opts) ==
    LET addr == ToLower(TrimSpace(address))
        called == [NoListing EXCEPT !.at = "done", !.address = address,
                                    !.nativeTxs = nativeTxs, !.internalTxs = internalTxs,
                                    !.tokenTxs = tokenTxs, !.opts = opts]
        all == nativeTxs.txs \o internalTxs.txs \o tokenTxs.txs
        enriched == [i \in DOMAIN all |-> enrichTransaction(all[i], addr)]
        filtered == EnrichAndFilter(all, addr, opts)
    IN  IF nativeTxs.err THEN {[called EXCEPT !.err = ErrNative]}
        ELSE IF internalTxs.err THEN {[called EXCEPT !.err = ErrInternal]}
        ELSE IF tokenTxs.err THEN {[called EXCEPT !.err = ErrTokenTxs]}
        ELSE {LET paged == Paginate(sorted, opts)
              IN  [called EXCEPT !.all = all, !.enriched = enriched,
                                 !.filtered = filtered, !.sorted = sorted,
                                 !.page = paged.page,
                                 !.pageNil = paged.panicked,
                                 !.panicked = paged.panicked] :
              sorted \in SortSlice(filtered)}

TransactionsByAddress(address, nativeTxs, internalTxs, tokenTxs, opts) ==
    /\ listing.at = "idle"
    /\ listing' \in TransactionsByAddressReturns(address, nativeTxs, internalTxs,
                                                 tokenTxs, opts)
    /\ UNCHANGED <<rlVars, priceVars, batched, valueVars, folioVars, reduced, classified, moreVars>>

\* Service.GetTransactions, lines 32-51: what it returns for what its call of
\* TransactionsByAddress returned: the transactions that are not nil, and
\* their number.
GetTransactions(listed) ==
    IF listed.err # NoErr
    THEN [result |-> <<>>, resultNil |-> TRUE, total |-> 0, err |-> listed.err]
    ELSE LET result == SelectSeq(listed.page, LAMBDA tx : ~tx.nil)
         IN  [result |-> result, resultNil |-> FALSE, total |-> Len(result),
              err |-> NoErr]

\* ------------------------------------------------- the etherscan provider

\* The call inputs of the model: none, the bare prefix, one character short of
\* a selector, and calls of transfer, of a swap (in upper case), of stake and
\* of an unknown method.
Inputs ==
    {"", "0x", "0xa9059cb", "0xa9059cbb0000", "0x38ED17390000", "0x3d18b9120000",
     "0xdeadbeef0000"}

\* len(input) < 10, and input[:10]
ShorterThanTen(input) == input \in {"", "0x", "0xa9059cb"}
FirstTen(input) ==
    CASE input = "0xa9059cbb0000" -> "0xa9059cbb"
      [] input = "0x38ED17390000" -> "0x38ED1739"
      [] input = "0x3d18b9120000" -> "0x3d18b912"
      [] input = "0xdeadbeef0000" -> "0xdeadbeef"

\* Transaction.ExtractMethodSignature
ExtractMethodSignature(input) ==
    IF ShorterThanTen(input) THEN "" ELSE ToLower(FirstTen(input))

\* The selector tables of ClassifyType, lines 102-123.
TransferSigs == {"0xa9059cbb", "0x23b872dd"}
ClassifiedSwapSigs ==
    {"0x7ff36ab5", "0x02751cec", "0x38ed1739", "0x8803dbee", "0x4a25d94a",
     "0x791ac947", "0x414bf389", "0xdb3e2198", "0x5c11d795"}
StakeSigs == {"0x3d18b912", "0xb6b55f25", "0x1249c58b", "0xd0e30db0", "0x47e7ef24"}

\* Transaction.ClassifyType
ClassifyType(tx, input) ==
    LET methodSig == ToLower(IF tx.MethodSig = "" /\ input # ""
                             THEN ExtractMethodSignature(input)
                             ELSE tx.MethodSig)
    IN  IF methodSig \in TransferSigs THEN "send"
        ELSE IF methodSig \in ClassifiedSwapSigs THEN "swap"
        ELSE IF methodSig \in StakeSigs THEN "stake"
        ELSE "send"

\* Transaction.DetectDirection
DetectDirection(tx, address) ==
    LET from == ToLower(tx.From)
        to == ToLower(tx.To)
        addr == ToLower(address)
    IN  IF from = addr THEN "out"
        ELSE IF to = addr THEN "in"
        ELSE "out"

\* Transaction.MethodName
MethodMap ==
    [sig \in TransferSigs \cup {"0x095ea7b3"} \cup ClassifiedSwapSigs \cup StakeSigs |->
        CASE sig = "0xa9059cbb" -> "transfer"
          [] sig = "0x23b872dd" -> "transferFrom"
          [] sig = "0x095ea7b3" -> "approve"
          [] sig = "0x7ff36ab5" -> "swapExactETHForTokens"
          [] sig = "0x02751cec" -> "swap"
          [] sig = "0x38ed1739" -> "swapExactTokensForTokens"
          [] sig = "0x8803dbee" -> "swapTokensForExactTokens"
          [] sig = "0x4a25d94a" -> "swapETHForExactTokens"
          [] sig = "0x791ac947" -> "swapExactTokensForETH"
          [] sig = "0x414bf389" -> "exactInputSingle"
          [] sig = "0xdb3e2198" -> "exactInput"
          [] sig = "0x5c11d795" -> "swapExactTokensForTokensSupportingFeeOnTransferTokens"
          [] sig \in {"0x3d18b912", "0x1249c58b"} -> "stake"
          [] OTHER -> "deposit"]
MethodName(tx) ==
    IF ToLower(tx.MethodSig) \in DOMAIN MethodMap THEN MethodMap[ToLower(tx.MethodSig)]
    ELSE IF tx.MethodSig \in {"", "0x"} THEN "transfer"
    ELSE "unknown"

\* convertNormalTransaction, lines 392-395: a send that comes in is a receive.
AdjustedType(type, direction) ==
    IF type = "send" /\ direction = "in" THEN "receive" ELSE type

\* new(big.Int).SetString(s, 10) on the values etherscan gives in the model.
SetString(s) ==
    CASE s = "1" -> [ok |-> TRUE, value |-> NewInt(1)]
      [] s = "2" -> [ok |-> TRUE, value |-> NewInt(2)]
      [] s = "5" -> [ok |-> TRUE, value |-> NewInt(5)]
      [] OTHER -> [ok |-> FALSE, value |-> NilInt]

\* parseBigInt, lines 565-572: a nil pointer for a string that is no decimal
\* number.
parseBigInt(s) == IF SetString(s).ok THEN SetString(s).value ELSE NilInt

\* convertNormalTransaction, lines 356 and 382, and convertTokenTransfer,
\* lines 403 and 423: the error of parseBigInt is dropped and Int64 is called
\* on what it returned, which panics on the nil pointer.
BlockNumberPanics(etx) == parseBigInt(etx.BlockNumber).nil

\* What a conversion comes to: the transaction, or the panic.
ConversionOf(tx) == [panicked |-> FALSE, tx |-> tx]
ConversionPanic == [panicked |-> TRUE, tx |-> NilListed]

\* A transaction as etherscan lists it.
EtherscanTransaction(hash, from, to, input, isError) ==
    [Hash |-> hash, From |-> from, To |-> to, Input |-> input, IsError |-> isError,
     TxReceiptStatus |-> "1", TimeStamp |-> 1, BlockNumber |-> "1"]

\* Provider.convertNormalTransaction
convertNormalTransaction(etx, address) ==
    LET created == [Listed(etx.Hash, ToLower(etx.From), ToLower(etx.To), etx.TimeStamp)
                       EXCEPT !.TokenSymbol = "ETH",
                              !.Status = IF etx.IsError = "1" \/ etx.TxReceiptStatus = "0"
                                         THEN "failed" ELSE "success",
                              !.MethodSig = ExtractMethodSignature(etx.Input)]
        type == ClassifyType(created, etx.Input)
        direction == DetectDirection(created, address)
    IN  IF BlockNumberPanics(etx) THEN ConversionPanic
        ELSE ConversionOf([created EXCEPT !.Type = AdjustedType(type, direction),
                                          !.Method = MethodName(created),
                                          !.Direction = direction])

\* A token transfer as etherscan lists it.
EtherscanTokenTransfer(hash, from, to, contractAddress, tokenSymbol, value, timeStamp) ==
    [Hash |-> hash, From |-> from, To |-> to, Input |-> "",
     ContractAddress |-> contractAddress, TokenSymbol |-> tokenSymbol, Value |-> value,
     TimeStamp |-> timeStamp, BlockNumber |-> "1"]

\* Provider.convertTokenTransfer
convertTokenTransfer(etx, address) ==
    LET created == [Listed(etx.Hash, ToLower(etx.From), ToLower(etx.To), etx.TimeStamp)
                       EXCEPT !.TokenAddress = ToLower(etx.ContractAddress),
                              !.TokenSymbol = etx.TokenSymbol,
                              !.MethodSig = ExtractMethodSignature(etx.Input)]
        type == ClassifyType(created, etx.Input)
        direction == DetectDirection(created, address)
    IN  IF BlockNumberPanics(etx) THEN ConversionPanic
        ELSE ConversionOf([created EXCEPT !.Type = AdjustedType(type, direction),
                                          !.Method = MethodName(created),
                                          !.Direction = direction])

\* The record of a conversion, or of the classifier called on a transaction,
\* that has not happened.
NoClassified ==
    [at |-> "idle", op |-> "", address |-> "", input |-> "", before |-> NilListed,
     tx |-> NilListed, type |-> "", direction |-> ""]

\* The provider converts a transaction etherscan listed for address; a
\* conversion that panics returns nothing.
ConvertNormalTransaction(etx, address) ==
    /\ classified.at = "idle"
    /\ LET converted == convertNormalTransaction(etx, address)
           called == [NoClassified EXCEPT
                         !.op = "convert", !.address = address, !.input = etx.Input,
                         !.before = Listed(etx.Hash, etx.From, etx.To, etx.TimeStamp)]
       IN  classified' = IF converted.panicked
                         THEN [called EXCEPT !.at = "panicked"]
                         ELSE [called EXCEPT !.at = "done", !.tx = converted.tx,
                                             !.type = converted.tx.Type,
                                             !.direction = converted.tx.Direction]
    /\ UNCHANGED <<rlVars, priceVars, batched, valueVars, folioVars, reduced, listing, moreVars>>

\* A caller classifies a transaction it holds: tx.ClassifyType(input) and
\* tx.DetectDirection(address).
Classify(tx, input, address) ==
    /\ classified.at = "idle"
    /\ classified' = [NoClassified EXCEPT
           !.at = "done", !.op = "classify", !.address = address, !.input = input,
           !.before = tx, !.tx = tx,
           !.type = ClassifyType(tx, input),
           !.direction = DetectDirection(tx, address)]
    /\ UNCHANGED <<rlVars, priceVars, batched, valueVars, folioVars, reduced, listing, moreVars>>


\* ------------------------------------------------------ Cache operations

\* Cache.Get: the value under k and whether there is one; the zero value of
\* *Price when there is none.
Get(m, k) ==
    IF k \in DOMAIN m THEN [v |-> m[k], ok |-> TRUE] ELSE [v |-> NilPrice, ok |-> FALSE]

\* Cache.Set: m with v written under k.
Set(m, k, v) == [x \in DOMAIN m \cup {k} |-> IF x = k THEN v ELSE m[x]]

\* The keys and values the price service gives its cache: the key of a token
\* and currency, and a price stamped with the time it was fetched.
StoreKeys == {cacheKey(Address[tk], c) : tk \in {"weth", "usdc"}, c \in Currencies}
StoreValues(t) ==
    {[Token |-> "weth", Value |-> q, Currency |-> "usd", LastUpdated |-> t] :
        q \in {MockQuote, PrimaryQuote}}
StoreKeyLists == UNION {[1..n -> StoreKeys] : n \in 0..MaxTokens}
StoreItems(t) == UNION {[K -> StoreValues(t)] : K \in SUBSET StoreKeys}

\* The record of a Cache method that has not been called.
NoCacheOp ==
    [op |-> "", k |-> "", keys |-> <<>>, items |-> EmptyMap, at |-> 0,
     v |-> NilPrice, ok |-> FALSE, found |-> EmptyMap]

InitCache ==
    /\ cacheOp = NoCacheOp
    /\ written = EmptyMap

\* A caller calls Cache.Get.
CacheGet(k) ==
    /\ cacheOp' = [NoCacheOp EXCEPT !.op = "Get", !.k = k, !.at = now,
                                    !.v = Get(cache, k).v, !.ok = Get(cache, k).ok]
    /\ UNCHANGED <<rlVars, cache, call, batched, valueVars, folioVars, txVars, written, lockVars, chainVars, ledgerVars>>

\* A caller calls Cache.Set.
CacheSet(k, v) ==
    /\ cache' = Set(cache, k, v)
    /\ written' = [x \in DOMAIN written \cup {k} |-> IF x = k THEN v ELSE written[x]]
    /\ cacheOp' = [NoCacheOp EXCEPT !.op = "Set", !.k = k, !.at = now, !.v = v]
    /\ UNCHANGED <<rlVars, call, batched, valueVars, folioVars, txVars, lockVars, chainVars, ledgerVars>>

\* A caller calls Cache.GetBatch.
CacheGetBatch(keys) ==
    /\ cacheOp' = [NoCacheOp EXCEPT !.op = "GetBatch", !.keys = keys, !.at = now,
                                    !.found = GetBatch(cache, keys)]
    /\ UNCHANGED <<rlVars, cache, call, batched, valueVars, folioVars, txVars, written, lockVars, chainVars, ledgerVars>>

\* A caller calls Cache.SetBatch.
CacheSetBatch(items) ==
    /\ cache' = SetBatch(cache, items)
    /\ written' = [x \in DOMAIN written \cup DOMAIN items |->
                      IF x \in DOMAIN items THEN items[x] ELSE written[x]]
    /\ cacheOp' = [NoCacheOp EXCEPT !.op = "SetBatch", !.items = items, !.at = now]
    /\ UNCHANGED <<rlVars, call, batched, valueVars, folioVars, txVars, lockVars, chainVars, ledgerVars>>

\* ------------------------------------- goroutines, the limiter and the cache

\* What a goroutine runs: Service.GetPrices, RateLimiter.Allow alone, or one
\* Cache method alone.
Programs == {"GetPrices", "Allow", "Get", "Set"}

\* A goroutine that has not started.
NoGoroutine ==
    [prog |-> "", at |-> "idle", tokens |-> <<>>, cachedPrices |-> EmptyMap,
     missedTokens |-> <<>>, allowRet |-> NoErr, fetched |-> EmptyMap, err |-> NoErr]

InitGoroutines ==
    /\ goroutine = [p \in Callers |-> NoGoroutine]
    /\ cacheMu = [readers |-> {}, writer |-> 0]

\* The variables of the limiter and of the services that no goroutine step
\* of this section writes.
restVars ==
    <<now, maxCalls, windowDuration, cleanupInterval, pc, nowL, seenL, retL, started,
      okCount, errCount, contended, call, batched, valueVars, folioVars, txVars,
      storeVars, chainVars, ledgerVars>>

\* The locks goroutine p holds.
HoldsLimiter(p) == mu = p
HoldsCache(p) == p \in cacheMu.readers \/ (cacheMu.writer = p /\ goroutine[p].at = "writing")

\* A goroutine starts: GetPrices reaches s.cache.GetBatch, Get reaches RLock,
\* Set reaches Lock, Allow reaches rl.mu.Lock().
Go(p, prog, tokens) ==
    /\ goroutine[p].at = "idle"
    /\ goroutine' = [goroutine EXCEPT ![p] =
           [NoGoroutine EXCEPT !.prog = prog, !.tokens = tokens,
                               !.at = CASE prog = "Allow" -> "lock"
                                        [] prog = "Set" -> "wlock"
                                        [] OTHER -> "rlock"]]
    /\ UNCHANGED <<restVars, callTimestamps, lastCleanup, mu, cache, cacheMu>>

\* c.mu.RLock() succeeds: no goroutine has called Lock.
RLock(p) ==
    /\ goroutine[p].at = "rlock"
    /\ cacheMu.writer = 0
    /\ cacheMu' = [cacheMu EXCEPT !.readers = @ \cup {p}]
    /\ goroutine' = [goroutine EXCEPT ![p].at = "reading"]
    /\ UNCHANGED <<restVars, callTimestamps, lastCleanup, mu, cache>>

\* The deferred c.mu.RUnlock() of GetBatch, and the RUnlock of Get.
RUnlockMutKept(readers, p) == readers
RUnlock(readers, p) == readers \ {p}

\* Get or GetBatch reads the map and releases the lock.
Read(p) ==
    /\ goroutine[p].at = "reading"
    /\ cacheMu' = [cacheMu EXCEPT !.readers = RUnlock(@, p)]
    /\ goroutine' = [goroutine EXCEPT ![p] =
           [@ EXCEPT !.cachedPrices = GetBatch(cache, CacheKeys(goroutine[p].tokens, "usd")),
                     !.at = IF goroutine[p].prog = "Get" THEN "done" ELSE "sort"]]
    /\ UNCHANGED <<restVars, callTimestamps, lastCleanup, mu, cache>>

\* GetPrices, lines 1521-1550: the clock is read and the tokens are sorted
\* into hits and missedTokens.
Sort(p) ==
    /\ goroutine[p].at = "sort"
    /\ \E sorting \in Sortings(goroutine[p].tokens, "usd", goroutine[p].cachedPrices, now) :
          goroutine' = [goroutine EXCEPT ![p] =
              [@ EXCEPT !.missedTokens = sorting.missed,
                        !.at = IF Len(sorting.missed) = 0 THEN "done" ELSE "lock"]]
    /\ UNCHANGED <<restVars, callTimestamps, lastCleanup, mu, cache, cacheMu>>

\* rl.mu.Lock() succeeds.
Lock(p) ==
    /\ goroutine[p].at = "lock"
    /\ MutexFree(p)
    /\ mu' = p
    /\ goroutine' = [goroutine EXCEPT ![p].at = "allowing"]
    /\ UNCHANGED <<restVars, callTimestamps, lastCleanup, cache, cacheMu>>

\* Allow, lines 54-76, and its deferred Unlock.
Allow(p) ==
    /\ goroutine[p].at = "allowing"
    /\ LET pruned == Prune(callTimestamps, now)
           allowRet == AllowResult(pruned)
       IN  /\ callTimestamps' = Recorded(pruned, now)
           /\ lastCleanup' = NextLastCleanup(now)
           /\ goroutine' = [goroutine EXCEPT ![p] =
                  [@ EXCEPT !.allowRet = allowRet,
                            !.at = CASE goroutine[p].prog = "Allow" -> "done"
                                     [] PrimaryCalled(allowRet) -> "primary"
                                     [] OTHER -> "fallback"]]
    /\ mu' = 0
    /\ UNCHANGED <<restVars, cache, cacheMu>>

\* GetPrices, lines 1557-1564: s.primaryProvider.GetPrices.
Primary(p) ==
    /\ goroutine[p].at = "primary"
    /\ \E primary \in ProviderAnswers(goroutine[p].missedTokens, "USD", now, PrimaryQuote) :
          goroutine' = [goroutine EXCEPT ![p] =
              [@ EXCEPT !.fetched = primary.prices,
                        !.at = IF primary.err THEN "fallback" ELSE "wlock"]]
    /\ UNCHANGED <<restVars, callTimestamps, lastCleanup, mu, cache, cacheMu>>

\* GetPrices, lines 1572-1583: s.fallbackProvider.GetPrices.
Fallback(p) ==
    /\ goroutine[p].at = "fallback"
    /\ \E fallback \in ProviderAnswers(goroutine[p].missedTokens, "usd", now, MockQuote) :
          goroutine' = [goroutine EXCEPT ![p] =
              [@ EXCEPT !.fetched = fallback.prices,
                        !.err = IF fallback.err THEN ErrBothFailed ELSE NoErr,
                        !.at = IF fallback.err THEN "done" ELSE "wlock"]]
    /\ UNCHANGED <<restVars, callTimestamps, lastCleanup, mu, cache, cacheMu>>

\* c.mu.Lock() is called: from now on no new reader is let in.
WLock(p) ==
    /\ goroutine[p].at = "wlock"
    /\ cacheMu.writer = 0
    /\ cacheMu' = [cacheMu EXCEPT !.writer = p]
    /\ goroutine' = [goroutine EXCEPT ![p].at = "wwait"]
    /\ UNCHANGED <<restVars, callTimestamps, lastCleanup, mu, cache>>

\* c.mu.Lock() returns: the last reader has left.
WLocked(p) ==
    /\ goroutine[p].at = "wwait"
    /\ cacheMu.readers = {}
    /\ goroutine' = [goroutine EXCEPT ![p].at = "writing"]
    /\ UNCHANGED <<restVars, callTimestamps, lastCleanup, mu, cache, cacheMu>>

\* Set or SetBatch writes the map and unlocks; GetPrices then returns.
Write(p) ==
    /\ goroutine[p].at = "writing"
    /\ LET g == goroutine[p]
       IN  IF g.prog = "Set"
           THEN \E v \in StoreValues(now) :
                   cache' = Set(cache, cacheKey(Address[g.tokens[1]], "usd"), v)
           ELSE \E cacheItems \in CacheItems(g.fetched, "usd") :
                   cache' = SetBatch(cache, cacheItems)
    /\ cacheMu' = [cacheMu EXCEPT !.writer = 0]
    /\ goroutine' = [goroutine EXCEPT ![p].at = "done"]
    /\ UNCHANGED <<restVars, callTimestamps, lastCleanup, mu>>

\* One step of goroutine p.
Step(p) ==
    \/ RLock(p) \/ Read(p) \/ Sort(p) \/ Lock(p) \/ Allow(p) \/ Primary(p) \/ Fallback(p)
    \/ WLock(p) \/ WLocked(p) \/ Write(p)

\* ------------------------------------------- Etherscan provider: fetching

ErrAllFailed == "all API requests failed"
ErrLimited == "rate limit exceeded"

\* deduplicateTransactions, lines 531-544: the first transaction of each hash.
RECURSIVE deduplicateTransactions(_)
deduplicateTransactions(txs) ==
    IF txs = <<>> THEN <<>>
    ELSE LET front == deduplicateTransactions(SubSeq(txs, 1, Len(txs) - 1))
             tx == txs[Len(txs)]
         IN  IF \E i \in DOMAIN front : ToLower(front[i].Hash) = ToLower(tx.Hash)
             THEN front ELSE Append(front, tx)

\* applyFilters, lines 488-527: whether tx is kept.
FilterKeeps(tx, opts) ==
    /\ opts.TypeNil \/ tx.Type = opts.Type
    /\ opts.StatusNil \/ tx.Status = opts.Status
    /\ \/ opts.TokenNil
       \/ ToLower(tx.TokenAddress) = ToLower(opts.Token)
       \/ ToLower(tx.TokenSymbol) = ToLower(opts.Token)
    /\ opts.FromDateNil \/ ~Before(tx.Timestamp, opts.FromDate)
    /\ opts.ToDateNil \/ ~After(tx.Timestamp, opts.ToDate)
    /\ opts.DirectionNil \/ tx.Direction = opts.Direction

\* applyFilters
applyFilters(txs, opts) == SelectSeq(txs, LAMBDA tx : FilterKeeps(tx, opts))

\* A channel of transaction slices: what is buffered and whether it is closed.
NewChan == [buf |-> <<>>, closed |-> FALSE]

\* Whether a receive from the channel can proceed, and what it yields: the
\* buffered value, or the zero value (a nil slice) once the channel is closed
\* and drained.
Ready(ch) == ch.buf # <<>> \/ ch.closed
Received(ch) == IF ch.buf # <<>> THEN Head(ch.buf) ELSE <<>>
AfterReceive(ch) == IF ch.buf # <<>> THEN [ch EXCEPT !.buf = Tail(@)] ELSE ch

\* What a call of the Etherscan client comes back with: an error, or the
\* entries listed.
ClientError == [err |-> TRUE, etxs |-> <<>>]
ClientOf(etxs) == [err |-> FALSE, etxs |-> etxs]

\* What one fetch goroutine's call comes to: an error, the transactions, or
\* the panic of a conversion.
FetchError == [err |-> TRUE, txs |-> <<>>, panicked |-> FALSE]
FetchOf(txs) == [err |-> FALSE, txs |-> txs, panicked |-> FALSE]
FetchPanic == [err |-> FALSE, txs |-> <<>>, panicked |-> TRUE]

\* The loop over the entries listed, lines 283-287 and 316-320.
FetchConverted(converted) ==
    IF \E i \in DOMAIN converted : converted[i].panicked THEN FetchPanic
    ELSE FetchOf([i \in DOMAIN converted |-> converted[i].tx])

\* fetchNormalTransactions, lines 260-290: every entry converted.
fetchNormalTransactions(answer, address) ==
    IF answer.err THEN FetchError
    ELSE FetchConverted([i \in DOMAIN answer.etxs |->
                            convertNormalTransaction(answer.etxs[i], address)])

\* fetchTokenTransfers, lines 293-323
fetchTokenTransfers(answer, address) ==
    IF answer.err THEN FetchError
    ELSE FetchConverted([i \in DOMAIN answer.etxs |->
                            convertTokenTransfer(answer.etxs[i], address)])

\* GetTransactionsByAddress, line 81: the page size used when none is asked.
DefaultPageSize == 20

\* GetTransactionsByAddress, lines 74-109: the page of the filtered
\* transactions and the counts returned with it, or the panic of a slice
\* expression whose bounds are out of range.
ProviderPage(filtered, opts) ==
    LET page == IF WordLess(opts.Page, One) THEN One ELSE opts.Page
        pageSize == IF WordLess(opts.PageSize, One) THEN WordOfInt(DefaultPageSize)
                                                    ELSE opts.PageSize
        total == WordOfInt(Len(filtered))
        product == WordMul(WordSub(page, One), pageSize)
        sum == WordAdd(product, pageSize)
        start == IF WordLess(total, product) THEN total ELSE product
        end == IF WordLess(total, sum) THEN total ELSE sum
        sliced == WordLess(start, total)
        panicked == sliced /\ (WordNegative(start) \/ WordLess(end, start))
    IN  [panicked |-> panicked,
         Transactions |-> IF sliced /\ ~panicked
                          THEN SubSeq(filtered, IntOfWord(start) + 1, IntOfWord(end))
                          ELSE <<>>,
         Total |-> Len(filtered), Page |-> page, PageSize |-> pageSize,
         TotalPages |-> WordQuo(WordSub(WordAdd(total, pageSize), One), pageSize)]

\* The record of a call that has not been made. op tells the paginated
\* listing from the one that returns everything; filtered is what
\* getAllFilteredTransactions returned.
NoChainFetch ==
    [at |-> "idle", op |-> "", opts |-> NoFilter, normal |-> FetchError,
     token |-> FetchError, normalAt |-> "", tokenAt |-> "",
     normalTxsChan |-> NewChan, tokenTxsChan |-> NewChan, errChan |-> <<>>,
     i |-> 0, allTxs |-> <<>>, errors |-> <<>>, filtered |-> <<>>,
     result |-> <<>>, resultNil |-> TRUE, total |-> 0, page |-> Zero,
     pageSize |-> Zero, totalPages |-> Zero, panicked |-> FALSE, err |-> NoErr]

ErrAddressRequired == "address is required"
ErrHashRequired == "hash is required"
ErrFetchTransfers == "failed to fetch token transfers"
ErrNotImplemented == "GetTransactionByHash not fully implemented"

\* The record of a GetTokenBalances or GetTransactionByHash call that has not
\* been made.
NoLookup ==
    [at |-> "idle", op |-> "", address |-> "", balances |-> EmptyMap,
     resultNil |-> TRUE, err |-> NoErr]

InitChain ==
    /\ chain = NoChainFetch
    /\ lookup = NoLookup

\* A goroutine of the provider has panicked and the process has ended.
Ended == chain.at = "exited"

\* The variables no step of this section writes, and those a step of a
\* listing call leaves alone.
chainRest ==
    <<now, maxCalls, windowDuration, cleanupInterval, callerVars, priceVars, batched,
      valueVars, folioVars, txVars, storeVars, lockVars, ledgerVars>>
listingRest == <<chainRest, lookup>>

\* GetTransactionsByAddress, lines 29-56, and GetAllTransactionsByAddress,
\* lines 113-151: the address is checked, the rate limiter asked, and the two
\* goroutines are started. normal and token are what the two calls of the
\* Etherscan client will come back with.
StartFetches(op, address, opts, normal, token) ==
    /\ IF address = ""
       THEN /\ chain' = [NoChainFetch EXCEPT !.at = "done", !.op = op, !.opts = opts,
                                             !.err = ErrAddressRequired]
            /\ UNCHANGED <<callTimestamps, lastCleanup>>
       ELSE LET pruned == Prune(callTimestamps, now)
            IN  /\ callTimestamps' = Recorded(pruned, now)
                /\ lastCleanup' = NextLastCleanup(now)
                /\ chain' =
                      IF AllowResult(pruned) # NoErr
                      THEN [NoChainFetch EXCEPT !.at = "done", !.op = op, !.opts = opts,
                                                !.err = ErrLimited]
                      ELSE [NoChainFetch EXCEPT
                               !.at = "collecting", !.op = op, !.opts = opts,
                               !.normal = fetchNormalTransactions(normal, ToLower(address)),
                               !.token = fetchTokenTransfers(token, ToLower(address)),
                               !.normalAt = "fetching", !.tokenAt = "fetching"]
    /\ UNCHANGED listingRest

\* Provider.GetTransactionsByAddress
GetTransactionsByAddress(address, opts, normal, token) ==
    /\ chain.at = "idle"
    /\ StartFetches("paged", address, opts, normal, token)

\* Provider.GetAllTransactionsByAddress
GetAllTransactionsByAddress(address, opts, normal, token) ==
    /\ chain.at = "idle"
    /\ StartFetches("all", address, opts, normal, token)

\* The first goroutine, lines 130-138: fetchNormalTransactions returns and
\* the goroutine sends the error or the transactions. When the conversion
\* panics, nothing is sent and the deferred close(normalTxsChan) of line 131
\* runs as the goroutine unwinds; nothing recovers the panic.
NormalSends ==
    /\ chain.normalAt = "fetching"
    /\ ~Ended
    /\ chain' = IF chain.normal.panicked
                THEN [chain EXCEPT !.normalAt = "panicked",
                                   !.normalTxsChan.closed = TRUE]
                ELSE IF chain.normal.err
                THEN [chain EXCEPT !.normalAt = "sent",
                                   !.errChan = Append(@, "normal")]
                ELSE [chain EXCEPT !.normalAt = "sent",
                                   !.normalTxsChan.buf = <<chain.normal.txs>>]
    /\ UNCHANGED <<listingRest, callTimestamps, lastCleanup>>

\* The first goroutine, line 130: the deferred close(normalTxsChan).
NormalCloses ==
    /\ chain.normalAt = "sent"
    /\ ~Ended
    /\ chain' = [chain EXCEPT !.normalAt = "closed", !.normalTxsChan.closed = TRUE]
    /\ UNCHANGED <<listingRest, callTimestamps, lastCleanup>>

\* The second goroutine, lines 141-149; a conversion that panics sends
\* nothing and the deferred close(tokenTxsChan) of line 142 runs.
TokenSends ==
    /\ chain.tokenAt = "fetching"
    /\ ~Ended
    /\ chain' = IF chain.token.panicked
                THEN [chain EXCEPT !.tokenAt = "panicked",
                                   !.tokenTxsChan.closed = TRUE]
                ELSE IF chain.token.err
                THEN [chain EXCEPT !.tokenAt = "sent",
                                   !.errChan = Append(@, "token")]
                ELSE [chain EXCEPT !.tokenAt = "sent",
                                   !.tokenTxsChan.buf = <<chain.token.txs>>]
    /\ UNCHANGED <<listingRest, callTimestamps, lastCleanup>>

\* The second goroutine, line 141: the deferred close(tokenTxsChan).
TokenCloses ==
    /\ chain.tokenAt = "sent"
    /\ ~Ended
    /\ chain' = [chain EXCEPT !.tokenAt = "closed", !.tokenTxsChan.closed = TRUE]
    /\ UNCHANGED <<listingRest, callTimestamps, lastCleanup>>

\* The panic of a goroutine, its deferred calls done, ends the process; until
\* then the other goroutines and the caller go on.
ProcessExits ==
    /\ ~Ended
    /\ chain.normalAt = "panicked" \/ chain.tokenAt = "panicked"
    /\ chain' = [chain EXCEPT !.at = "exited"]
    /\ UNCHANGED <<listingRest, callTimestamps, lastCleanup>>

\* getAllFilteredTransactions, lines 169-171: the select takes the case of
\* normalTxsChan.
SelectNormal ==
    /\ chain.at = "collecting"
    /\ chain.i < 2
    /\ Ready(chain.normalTxsChan)
    /\ chain' = [chain EXCEPT !.i = @ + 1,
                              !.allTxs = @ \o Received(chain.normalTxsChan),
                              !.normalTxsChan = AfterReceive(@)]
    /\ UNCHANGED <<listingRest, callTimestamps, lastCleanup>>

\* getAllFilteredTransactions, lines 172-173: the case of tokenTxsChan.
SelectToken ==
    /\ chain.at = "collecting"
    /\ chain.i < 2
    /\ Ready(chain.tokenTxsChan)
    /\ chain' = [chain EXCEPT !.i = @ + 1,
                              !.allTxs = @ \o Received(chain.tokenTxsChan),
                              !.tokenTxsChan = AfterReceive(@)]
    /\ UNCHANGED <<listingRest, callTimestamps, lastCleanup>>

\* getAllFilteredTransactions, lines 174-175: the case of errChan.
SelectErr ==
    /\ chain.at = "collecting"
    /\ chain.i < 2
    /\ chain.errChan # <<>>
    /\ chain' = [chain EXCEPT !.i = @ + 1,
                              !.errors = Append(@, Head(chain.errChan)),
                              !.errChan = Tail(@)]
    /\ UNCHANGED <<listingRest, callTimestamps, lastCleanup>>

\* getAllFilteredTransactions, lines 179-196, after the loop, and what its
\* caller does with the answer: GetAllTransactionsByAddress returns it (a nil
\* slice when nothing was appended), GetTransactionsByAddress, lines 69-109,
\* cuts the page out of it.
Collected ==
    /\ chain.at = "collecting"
    /\ chain.i = 2
    /\ IF Len(chain.errors) = 2
       THEN chain' = [chain EXCEPT !.at = "done", !.err = ErrAllFailed]
       ELSE \E sorted \in SortSlice(applyFilters(deduplicateTransactions(chain.allTxs),
                                                 chain.opts)) :
               chain' =
                  IF chain.op = "all"
                  THEN [chain EXCEPT !.at = "done", !.filtered = sorted,
                                     !.result = sorted, !.resultNil = (sorted = <<>>)]
                  ELSE LET paged == ProviderPage(sorted, chain.opts)
                       IN  [chain EXCEPT
                               !.at = "done", !.filtered = sorted,
                               !.panicked = paged.panicked,
                               !.result = paged.Transactions,
                               !.resultNil = paged.panicked,
                               !.total = IF paged.panicked THEN 0 ELSE paged.Total,
                               !.page = IF paged.panicked THEN Zero ELSE paged.Page,
                               !.pageSize = IF paged.panicked THEN Zero ELSE paged.PageSize,
                               !.totalPages = IF paged.panicked THEN Zero
                                              ELSE paged.TotalPages]
    /\ UNCHANGED <<listingRest, callTimestamps, lastCleanup>>

\* The caller has its answer and both goroutines have ended.
ChainReturn ==
    /\ chain.at = "done"
    /\ chain.normalAt \in {"", "closed"}
    /\ chain.tokenAt \in {"", "closed"}
    /\ chain' = NoChainFetch
    /\ UNCHANGED <<listingRest, callTimestamps, lastCleanup>>

\* big.Int.String: the decimal digits, highest first, after the sign.
DigitChars == <<"0", "1", "2", "3", "4", "5", "6", "7", "8", "9">>
BigString(x) ==
    IF x.mag = <<>> THEN <<"0">>
    ELSE (IF x.sign < 0 THEN <<"-">> ELSE <<>>) \o
         [i \in 1..Len(x.mag) |-> DigitChars[x.mag[Len(x.mag) + 1 - i] + 1]]

\* GetTokenBalances, lines 214-244: balances after the loop over the
\* transfers.
RECURSIVE AggregateBalances(_, _)
AggregateBalances(etxs, addressLower) ==
    IF etxs = <<>> THEN EmptyMap
    ELSE LET balances == AggregateBalances(SubSeq(etxs, 1, Len(etxs) - 1), addressLower)
             etx == etxs[Len(etxs)]
             tokenAddr == ToLower(etx.ContractAddress)
             amount == SetString(etx.Value)
             held == IF tokenAddr \in DOMAIN balances THEN balances[tokenAddr]
                                                     ELSE NewInt(0)
             after == IF ToLower(etx.From) = addressLower THEN BigSub(held, amount.value)
                      ELSE IF ToLower(etx.To) = addressLower
                      THEN BigAdd(held, amount.value)
                      ELSE held
         IN  IF tokenAddr = "" \/ ~amount.ok THEN balances
             ELSE [k \in DOMAIN balances \cup {tokenAddr} |->
                      IF k = tokenAddr THEN after ELSE balances[k]]

\* GetTokenBalances, lines 246-254: the balances that are not zero, as strings.
BalanceStrings(balances) ==
    [k \in {a \in DOMAIN balances : balances[a].sign # 0} |-> BigString(balances[k])]

\* Provider.GetTokenBalances, lines 200-208: the rate limiter is asked and,
\* when it allows, the transfers of the address are asked of Etherscan.
GetTokenBalances(address) ==
    /\ lookup.at = "idle"
    /\ ~Ended
    /\ LET pruned == Prune(callTimestamps, now)
           called == [NoLookup EXCEPT !.op = "balances", !.address = address]
       IN  /\ callTimestamps' = Recorded(pruned, now)
           /\ lastCleanup' = NextLastCleanup(now)
           /\ lookup' = IF AllowResult(pruned) # NoErr
                        THEN [called EXCEPT !.at = "done", !.err = ErrLimited]
                        ELSE [called EXCEPT !.at = "fetching"]
    /\ UNCHANGED <<chainRest, chain>>

\* Provider.GetTokenBalances, lines 208-256: Etherscan has answered; the
\* transfers are summed for each token.
GetTokenBalancesAnswered(answer) ==
    /\ lookup.at = "fetching"
    /\ ~Ended
    /\ lookup' =
          IF answer.err THEN [lookup EXCEPT !.at = "done", !.err = ErrFetchTransfers]
          ELSE [lookup EXCEPT
                   !.at = "done", !.resultNil = FALSE,
                   !.balances = BalanceStrings(
                                    AggregateBalances(answer.etxs, ToLower(lookup.address)))]
    /\ UNCHANGED <<chainRest, chain, callTimestamps, lastCleanup>>

\* Provider.GetTransactionByHash: the hash is checked and the rate limiter
\* asked; the lookup itself is not implemented.
GetTransactionByHash(hash) ==
    /\ lookup.at = "idle"
    /\ ~Ended
    /\ LET called == [NoLookup EXCEPT !.at = "done", !.op = "hash"]
       IN  IF hash = ""
           THEN /\ lookup' = [called EXCEPT !.err = ErrHashRequired]
                /\ UNCHANGED <<callTimestamps, lastCleanup>>
           ELSE LET pruned == Prune(callTimestamps, now)
                IN  /\ callTimestamps' = Recorded(pruned, now)
                    /\ lastCleanup' = NextLastCleanup(now)
                    /\ lookup' = [called EXCEPT
                                     !.err = IF AllowResult(pruned) # NoErr
                                             THEN ErrLimited ELSE ErrNotImplemented]
    /\ UNCHANGED <<chainRest, chain>>

\* GetTokenBalances or GetTransactionByHash has returned to its caller.
LookupReturn ==
    /\ lookup.at = "done"
    /\ ~Ended
    /\ lookup' = NoLookup
    /\ UNCHANGED <<chainRest, chain, callTimestamps, lastCleanup>>

\* ------------------------------------------------- portfolio: AddHolding

ErrInvalidHolding == "invalid holding"
ErrHoldingNotFound == "holding not found"

\* Token.ID of the tokens a holding may be added for.
HoldingTokens == {"weth", "usdc"}

\* A call of AddHolding, UpdateHolding or DeleteHolding that has not been
\* made.
NoAdd ==
    [at |-> "idle", op |-> "", tokenNil |-> FALSE, token |-> "", amount |-> 0,
     existingNil |-> TRUE, existingID |-> 0, existingAmount |-> 0, err |-> NoErr]

\* The holdings table of one portfolio, empty; the next uuid; per token the
\* sum of the amounts of the AddHolding calls that returned nil, and whether
\* UpdateHolding or DeleteHolding has written a holding of it.
InitLedger ==
    ledger = [rows |-> <<>>, nextID |-> 1, added |-> [t \in HoldingTokens |-> 0],
              edited |-> [t \in HoldingTokens |-> FALSE],
              started |-> 0, calls |-> [p \in Callers |-> NoAdd]]

\* Service.FindHolding: whether the holdings read hold one of that id.
FindHolding(rows, holdingID) == \E i \in DOMAIN rows : rows[i].id = holdingID

\* The token of the holding of that id.
TokenOfHolding(rows, holdingID) ==
    rows[CHOOSE i \in DOMAIN rows : rows[i].id = holdingID].token

\* Service.FindHoldingByToken: the place of the first holding of the token
\* among the holdings read, 0 when there is none.
FindHoldingByToken(rows, tokenID) ==
    IF \E i \in DOMAIN rows : rows[i].token = tokenID
    THEN CHOOSE i \in DOMAIN rows :
            /\ rows[i].token = tokenID
            /\ \A j \in DOMAIN rows : rows[j].token = tokenID => i <= j
    ELSE 0

\* The variables no step of this section writes.
ledgerRest == <<rlVars, priceVars, batched, valueVars, folioVars, txVars, storeVars,
                lockVars, chainVars>>

\* AddHolding, lines 143-166: the checks, then GetByIDWithHoldings reads the
\* portfolio's holdings and FindHoldingByToken looks for the token.
AddHoldingRead(p, tokenNil, token, amount) ==
    /\ ledger.calls[p].at = "idle"
    /\ ledger.started < MaxAddHoldings
    /\ LET i == FindHoldingByToken(ledger.rows, token)
           c == [NoAdd EXCEPT !.tokenNil = tokenNil, !.token = token, !.amount = amount]
       IN  ledger' = [ledger EXCEPT
              !.started = @ + 1,
              !.calls[p] =
                  IF tokenNil \/ amount <= 0
                  THEN [c EXCEPT !.at = "done", !.op = "add", !.err = ErrInvalidHolding]
                  ELSE IF i = 0 THEN [c EXCEPT !.at = "read", !.op = "add"]
                  ELSE [c EXCEPT !.at = "read", !.op = "add", !.existingNil = FALSE,
                                 !.existingID = ledger.rows[i].id,
                                 !.existingAmount = ledger.rows[i].amount]]
    /\ UNCHANGED ledgerRest

\* SQLiteRepository.UpdateHolding: the row of that id gets the amount.
UpdateHolding(rows, id, amount) ==
    [i \in DOMAIN rows |-> IF rows[i].id = id THEN [rows[i] EXCEPT !.amount = amount]
                                               ELSE rows[i]]

\* SQLiteRepository.CreateHolding: a row is inserted.
CreateHolding(rows, id, token, amount) ==
    Append(rows, [id |-> id, token |-> token, amount |-> amount])

\* AddHolding, lines 167-188: the holding found is updated with the sum of
\* its amount as read and the amount added, or a new holding is created.
AddHoldingWrite(p) ==
    /\ ledger.calls[p].at = "read"
    /\ ledger.calls[p].op = "add"
    /\ LET c == ledger.calls[p]
           missing == ~c.existingNil /\ ~\E i \in DOMAIN ledger.rows :
                                             ledger.rows[i].id = c.existingID
       IN  ledger' = [ledger EXCEPT
              !.rows = IF c.existingNil
                       THEN CreateHolding(@, ledger.nextID, c.token, c.amount)
                       ELSE UpdateHolding(@, c.existingID, c.existingAmount + c.amount),
              !.nextID = IF c.existingNil THEN @ + 1 ELSE @,
              !.added[c.token] = IF missing THEN @ ELSE @ + c.amount,
              !.calls[p] = [c EXCEPT !.at = "done",
                                     !.err = IF missing THEN ErrHoldingNotFound
                                                        ELSE NoErr]]
    /\ UNCHANGED ledgerRest

\* Service.UpdateHolding, lines 191-212: the check of the amount, then
\* GetByIDWithHoldings reads the holdings and FindHolding looks for the id.
UpdateHoldingRead(p, holdingID, amountNil, amount) ==
    /\ ledger.calls[p].at = "idle"
    /\ ledger.started < MaxAddHoldings
    /\ LET c == [NoAdd EXCEPT !.op = "update", !.existingID = holdingID,
                              !.amount = amount]
       IN  ledger' = [ledger EXCEPT
              !.started = @ + 1,
              !.calls[p] =
                  IF amountNil \/ amount < 0
                  THEN [c EXCEPT !.at = "done", !.err = ErrInvalidHolding]
                  ELSE IF ~FindHolding(ledger.rows, holdingID)
                  THEN [c EXCEPT !.at = "done", !.err = ErrHoldingNotFound]
                  ELSE [c EXCEPT !.at = "read", !.existingNil = FALSE]]
    /\ UNCHANGED ledgerRest

\* Service.UpdateHolding, lines 214-222: the holding found gets the amount
\* given; the UPDATE that meets no row is ErrHoldingNotFound.
UpdateHoldingWrite(p) ==
    /\ ledger.calls[p].at = "read"
    /\ ledger.calls[p].op = "update"
    /\ LET c == ledger.calls[p]
       IN  ledger' =
              IF FindHolding(ledger.rows, c.existingID)
              THEN [ledger EXCEPT
                       !.rows = UpdateHolding(@, c.existingID, c.amount),
                       !.edited[TokenOfHolding(ledger.rows, c.existingID)] = TRUE,
                       !.calls[p] = [c EXCEPT !.at = "done"]]
              ELSE [ledger EXCEPT
                       !.calls[p] = [c EXCEPT !.at = "done", !.err = ErrHoldingNotFound]]
    /\ UNCHANGED ledgerRest

\* Service.DeleteHolding, lines 225-242: GetByIDWithHoldings reads the
\* holdings and FindHolding looks for the id.
DeleteHoldingRead(p, holdingID) ==
    /\ ledger.calls[p].at = "idle"
    /\ ledger.started < MaxAddHoldings
    /\ LET c == [NoAdd EXCEPT !.op = "delete", !.existingID = holdingID]
       IN  ledger' = [ledger EXCEPT
              !.started = @ + 1,
              !.calls[p] =
                  IF ~FindHolding(ledger.rows, holdingID)
                  THEN [c EXCEPT !.at = "done", !.err = ErrHoldingNotFound]
                  ELSE [c EXCEPT !.at = "read", !.existingNil = FALSE]]
    /\ UNCHANGED ledgerRest

\* SQLiteRepository.DeleteHolding: the row of that id is deleted.
DeleteHolding(rows, id) == SelectSeq(rows, LAMBDA row : row.id # id)

\* Service.DeleteHolding, lines 244-249: the DELETE that meets no row is
\* ErrHoldingNotFound.
DeleteHoldingWrite(p) ==
    /\ ledger.calls[p].at = "read"
    /\ ledger.calls[p].op = "delete"
    /\ LET c == ledger.calls[p]
       IN  ledger' =
              IF FindHolding(ledger.rows, c.existingID)
              THEN [ledger EXCEPT
                       !.rows = DeleteHolding(@, c.existingID),
                       !.edited[TokenOfHolding(ledger.rows, c.existingID)] = TRUE,
                       !.calls[p] = [c EXCEPT !.at = "done"]]
              ELSE [ledger EXCEPT
                       !.calls[p] = [c EXCEPT !.at = "done", !.err = ErrHoldingNotFound]]
    /\ UNCHANGED ledgerRest

\* AddHolding, UpdateHolding or DeleteHolding has returned to its caller.
AddHoldingReturn(p) ==
    /\ ledger.calls[p].at = "done"
    /\ ledger' = [ledger EXCEPT !.calls[p] = NoAdd]
    /\ UNCHANGED ledgerRest

InitTransactionService ==
    /\ InitLedger
    /\ InitChain
    /\ InitGoroutines
    /\ reduced = NoReduced
    /\ listing = NoListing
    /\ classified = NoClassified
    /\ InitCache

\* cfg.Price.RateLimitRPS, here with PRICE_RATE_LIMIT_RPS=1.
PriceRateLimitRPS == 1

\* The limiter main.go builds for prices: NewRateLimiter(rps, time.Second).
InitPrice ==
    /\ LimiterInit({PriceRateLimitRPS}, {Second})
    /\ InitPriceService
    /\ InitRateLimitedService
    /\ valued = NoValued
    /\ InitPortfolioService
    /\ InitTransactionService

\* The steps of the GetPrices call that is followed, up to its return.
GetPricesRuns ==
    \/ GetPricesSort
    \/ GetPricesAllow
    \/ GetPricesPrimary
    \/ GetPricesFallback
    \/ GetPricesStore

\* The steps of the GetPrices call that is followed.
GetPricesStep ==
    \/ GetPricesRuns
    \/ Return

\* The token slices the goroutines pass to GetPrices, Get and Set.
GoTokenLists == {<<"weth">>, <<"usdc">>}

\* The goroutine that calls GetPrices beside the caller that is followed, and
\* the token slice it passes.
Others == {NumCallers}
OtherTokenLists == {<<"weth">>}

\* Another goroutine calls GetPrices, or takes a step of its call.
OtherGetPrices ==
    \/ \E p \in Others, tokens \in OtherTokenLists : Go(p, "GetPrices", tokens)
    \/ \E p \in Others : Step(p)

NextPrice ==
    \/ \E tokens \in TokenLists, currency \in Currencies : GetPrices(tokens, currency)
    \/ GetPricesStep
    \/ OtherGetPrices
    \/ TickHalfMinute

SpecPrice == InitPrice /\ [][NextPrice]_vars

NextPriceTwice ==
    \/ \E tokens \in TokenLists, currency \in Currencies : GetPrices(tokens, currency)
    \/ GetPricesAgain
    \/ GetPricesStep
    \/ OtherGetPrices
    \/ TickHalfMinute

SpecPriceTwice == InitPrice /\ [][NextPriceTwice]_vars

\* The token slices of the wide specification, one token longer.
WideTokenLists == UNION {[1..n -> Tokens] : n \in 0..(MaxTokens + 1)}

NextPriceWide ==
    \/ \E tokens \in WideTokenLists, currency \in Currencies : GetPrices(tokens, currency)
    \/ GetPricesStep
    \/ OtherGetPrices
    \/ TickHalfMinute

SpecPriceWide == InitPrice /\ [][NextPriceWide]_vars

NextCache ==
    \/ \E k \in StoreKeys : CacheGet(k)
    \/ \E k \in StoreKeys, v \in StoreValues(now) : CacheSet(k, v)
    \/ \E keys \in StoreKeyLists : CacheGetBatch(keys)
    \/ \E items \in StoreItems(now) : CacheSetBatch(items)
    \/ TickHalfMinuteUpTo(MaxCacheHalfMinutes)

SpecCache == InitPrice /\ [][NextCache]_vars

NextLocks ==
    \/ \E p \in Callers, prog \in Programs, tokens \in GoTokenLists : Go(p, prog, tokens)
    \/ \E p \in Callers : RLock(p)
    \/ \E p \in Callers : Read(p)
    \/ \E p \in Callers : Sort(p)
    \/ \E p \in Callers : Lock(p)
    \/ \E p \in Callers : Allow(p)
    \/ \E p \in Callers : Primary(p)
    \/ \E p \in Callers : Fallback(p)
    \/ \E p \in Callers : WLock(p)
    \/ \E p \in Callers : WLocked(p)
    \/ \E p \in Callers : Write(p)

SpecLocks == InitPrice /\ [][NextLocks]_vars

\* What the two calls of the Etherscan client may come back with: the
\* account's normal transactions, and its token transfers, one of them made
\* by a normal transaction of the account.
NormalAt(hash, from, to, timeStamp) ==
    [EtherscanTransaction(hash, from, to, "", "0") EXCEPT !.TimeStamp = timeStamp]
TransferAt(hash, from, to, value, timeStamp) ==
    EtherscanTokenTransfer(hash, from, to, USDCStored, "USDC", value, timeStamp)
NormalFetches ==
    {ClientError, ClientOf(<<>>), ClientOf(<<NormalAt("0xa1", "0xMe", "0xother", 1)>>),
     ClientOf(<<NormalAt("0xa1", "0xMe", "0xother", 1),
                NormalAt("0xa2", "0xother", "0xMe", 2)>>),
     ClientOf(<<[NormalAt("0xa1", "0xMe", "0xother", 1) EXCEPT !.BlockNumber = ""]>>)}
TokenFetches ==
    {ClientError, ClientOf(<<>>),
     ClientOf(<<TransferAt("0xb1", "0xother", "0xMe", "5", 3)>>),
     ClientOf(<<TransferAt("0xa1", "0xMe", "0xthird", "2", 1)>>),
     ClientOf(<<[TransferAt("0xb1", "0xother", "0xMe", "5", 3)
                    EXCEPT !.BlockNumber = "0x10"]>>)}
ChainAddresses == {"", PortfolioAddress}
ChainFilters ==
    {NoFilter, [NoFilter EXCEPT !.FromDateNil = FALSE, !.FromDate = 2],
     [NoFilter EXCEPT !.TokenNil = FALSE, !.Token = "USDC"]}

\* The pages asked of the paginated listing: none, the second of size one,
\* the third of the largest size, and the transfers of a token alone.
ChainPages ==
    {NoFilter, [NoFilter EXCEPT !.Page = WordOfInt(2), !.PageSize = One],
     [NoFilter EXCEPT !.Page = WordOfInt(3), !.PageSize = MaxInt64],
     [NoFilter EXCEPT !.TokenNil = FALSE, !.Token = "usdc", !.PageSize = One]}

\* The transfers GetTokenBalances is answered with: 5 in and 2 out of one
\* token beside a value that is no number, and 2 in and 2 out.
BalanceFetches ==
    {ClientError,
     ClientOf(<<TransferAt("0xb1", "0xother", "0xMe", "5", 1),
                TransferAt("0xb2", "0xMe", "0xother", "2", 2),
                TransferAt("0xb3", "0xother", "0xMe", "0x5", 3)>>),
     ClientOf(<<TransferAt("0xb1", "0xother", "0xMe", "2", 1),
                TransferAt("0xb2", "0xMe", "0xother", "2", 2)>>)}

NextChain ==
    \/ \E address \in ChainAddresses, opts \in ChainFilters, normal \in NormalFetches,
          token \in TokenFetches :
          GetAllTransactionsByAddress(address, opts, normal, token)
    \/ \E address \in ChainAddresses, opts \in ChainPages, normal \in NormalFetches,
          token \in TokenFetches :
          GetTransactionsByAddress(address, opts, normal, token)
    \/ GetTokenBalances(PortfolioAddress)
    \/ \E answer \in BalanceFetches : GetTokenBalancesAnswered(answer)
    \/ \E hash \in {"", "0xa1"} : GetTransactionByHash(hash)
    \/ LookupReturn
    \/ NormalSends
    \/ NormalCloses
    \/ TokenSends
    \/ TokenCloses
    \/ ProcessExits
    \/ SelectNormal
    \/ SelectToken
    \/ SelectErr
    \/ Collected
    \/ ChainReturn
    \/ TickSecondUpTo(MaxChainTime)

SpecChain == InitPrice /\ [][NextChain]_vars

NextLedger ==
    \/ \E p \in Callers, tokenNil \in BOOLEAN, token \in HoldingTokens,
          amount \in 0..MaxAdded : AddHoldingRead(p, tokenNil, token, amount)
    \/ \E p \in Callers : AddHoldingWrite(p)
    \/ \E p \in Callers, holdingID \in 1..MaxAddHoldings, amountNil \in BOOLEAN,
          amount \in (-1)..1 : UpdateHoldingRead(p, holdingID, amountNil, amount)
    \/ \E p \in Callers : UpdateHoldingWrite(p)
    \/ \E p \in Callers, holdingID \in 1..MaxAddHoldings : DeleteHoldingRead(p, holdingID)
    \/ \E p \in Callers : DeleteHoldingWrite(p)
    \/ \E p \in Callers : AddHoldingReturn(p)

SpecLedger == InitPrice /\ [][NextLedger]_vars

InitLimiter ==
    /\ LimiterInit(0..MaxCallsArg, 0..MaxWindowArg)
    /\ InitPriceService
    /\ InitRateLimitedService
    /\ valued = NoValued
    /\ InitPortfolioService
    /\ InitTransactionService

SpecLimiter == InitLimiter /\ [][NextLimiter]_vars

NextRateLimited ==
    \/ \E tokens \in BatchedTokenLists, currency \in Currencies,
          maxBatchSize \in 1..MaxBatchSize :
          RateLimitedGetPrices(tokens, currency, maxBatchSize)
    \/ RateLimitedBatch
    \/ RateLimitedReturn
    \/ RateLimitedDone

SpecRateLimited == InitPrice /\ [][NextRateLimited]_vars

\* RateLimitedService built with any maxBatchSize, the zero value of the
\* field and a negative one included.
NextRateLimitedAny ==
    \/ \E tokens \in BatchedTokenLists, currency \in Currencies,
          maxBatchSize \in (-1)..MaxBatchSize :
          RateLimitedGetPrices(tokens, currency, maxBatchSize)
    \/ RateLimitedBatch
    \/ RateLimitedReturn
    \/ RateLimitedDone

SpecRateLimitedAny == InitPrice /\ [][NextRateLimitedAny]_vars

InitValue ==
    /\ LimiterInit({PriceRateLimitRPS}, {Second})
    /\ InitPriceService
    /\ InitRateLimitedService
    /\ InitValued
    /\ InitPortfolioService
    /\ InitTransactionService

NextValue == CalculateValueCall

SpecValue == InitValue /\ [][NextValue]_vars

InitReduce ==
    /\ LimiterInit({PriceRateLimitRPS}, {Second})
    /\ InitPriceService
    /\ InitRateLimitedService
    /\ valued = NoValued
    /\ InitPortfolioService
    /\ InitReduced
    /\ listing = NoListing
    /\ classified = NoClassified
    /\ InitCache
    /\ InitGoroutines
    /\ InitChain
    /\ InitLedger

NextReduce == CalculateTokensAmountsCall

SpecReduce == InitReduce /\ [][NextReduce]_vars

\* The transactions the three fetches of a listing may return: the address
\* sends and receives, two native transfers carry the same timestamp as an
\* internal one.
NativeListed ==
    {Listed(1, "0xme", OtherAddress, 1),
     Listed(2, OtherAddress, "0xme", 2),
     Listed(3, "0xme", OtherAddress, 2)}
InternalListed == {NilListed, Listed(4, OtherAddress, "0xme", 2)}
TokenListed ==
    {[Listed(5, OtherAddress, "0xme", 3) EXCEPT !.TokenAddress = USDCStored],
     [Listed(6, "0xme", OtherAddress, 1) EXCEPT !.TokenAddress = USDCStored]}

\* The pages and page sizes a caller may ask for: none, negative, small, and
\* the largest int.
PageChoices == {WordOfInt(n) : n \in (-1)..MaxPage} \cup {MaxInt64}

\* A fetch of more transactions than sort.Slice sorts by insertion, oldest
\* first, the one after place tie carrying the timestamp of the one at it.
LongFetch(tie) ==
    [err |-> FALSE,
     txs |-> [k \in 1..(MaxInsertion + 1) |->
                 Listed(k, "0xme", OtherAddress, IF k = tie + 1 THEN tie ELSE k)]]

\* The filters on dates a caller may set.
DateChoices == {[nil |-> TRUE, at |-> 0]} \cup {[nil |-> FALSE, at |-> t] : t \in 1..MaxStamp}

NextListing ==
    /\ listing.at = "idle"
    /\ \/ \E nativeTxs \in TxFetches(NativeListed, MaxNativeListed),
             internalTxs \in TxFetches(InternalListed, MaxOtherListed),
             tokenTxs \in TxFetches(TokenListed, MaxOtherListed),
             page \in PageChoices, pageSize \in PageChoices :
             TransactionsByAddress("0xMe", nativeTxs, internalTxs, tokenTxs,
                 [NoFilter EXCEPT !.Page = page, !.PageSize = pageSize])
       \/ \E tie \in 1..2, pageSize \in {Zero, One} :
             TransactionsByAddress("0xMe", LongFetch(tie), NoFetch, NoFetch,
                 [NoFilter EXCEPT !.PageSize = pageSize])
       \/ \E nativeTxs \in TxFetches(NativeListed, MaxNativeListed),
             tokenTxs \in TxFetches(TokenListed, MaxOtherListed),
             from \in DateChoices, to \in DateChoices :
             TransactionsByAddress(" 0xMe ", nativeTxs, NoFetch, tokenTxs,
                 [NoFilter EXCEPT !.FromDateNil = from.nil, !.FromDate = from.at,
                                  !.ToDateNil = to.nil, !.ToDate = to.at])

SpecListing == InitPrice /\ [][NextListing]_vars

\* Who sends to whom: the address to another, another to the address, the
\* address to itself, and two strangers.
ThirdAddress == "0xthird"
Parties ==
    {<<"0xMe", OtherAddress>>, <<OtherAddress, "0xMe">>, <<"0xMe", "0xMe">>,
     <<OtherAddress, ThirdAddress>>}

\* The method a transaction carries: none, a swap by selector and name, a
\* stake by name alone, and a transfer.
Methods ==
    {[sig |-> "", name |-> ""],
     [sig |-> "0x38ED1739", name |-> "swapExactTokensForTokens"],
     [sig |-> "", name |-> "Stake"],
     [sig |-> "0xa9059cbb", name |-> "transfer"]}

\* The transactions a provider may hand to the transaction service, or a
\* caller to the classifier: typed or not, directed or not.
TypedChoices ==
    {[Listed(1, p[1], p[2], 1) EXCEPT !.Type = type, !.Direction = direction,
                                     !.MethodSig = m.sig, !.Method = m.name,
                                     !.TokenAddress = token] :
        p \in Parties, type \in {"", "send", "receive"}, direction \in {"", "in", "out"},
        m \in Methods, token \in {"", USDCStored}}

\* The block numbers etherscan may list: a decimal number, nothing, and a
\* hexadecimal number.
BlockNumbers == {"1", "", "0x10"}

\* The filters of a caller other than on dates: none, or one of them set.
FilterChoices ==
    {NoFilter,
     [NoFilter EXCEPT !.TypeNil = FALSE, !.Type = "send"],
     [NoFilter EXCEPT !.StatusNil = FALSE, !.Status = "failed"],
     [NoFilter EXCEPT !.DirectionNil = FALSE, !.Direction = "in"],
     [NoFilter EXCEPT !.TokenNil = FALSE, !.Token = " "],
     [NoFilter EXCEPT !.TokenNil = FALSE, !.Token = USDCAddress]}

NextClassify ==
    /\ classified.at = "idle"
    /\ listing.at = "idle"
    /\ \/ \E p \in Parties, input \in Inputs, isError \in {"0", "1"},
             blockNumber \in BlockNumbers, address \in {"0xMe", "0xme"} :
             ConvertNormalTransaction(
                 [EtherscanTransaction(1, p[1], p[2], input, isError)
                     EXCEPT !.BlockNumber = blockNumber], address)
       \/ \E tx \in TypedChoices, input \in Inputs, address \in {"0xMe", "0xme"} :
             Classify(tx, input, address)
       \/ \E tx \in TypedChoices, opts \in FilterChoices :
             TransactionsByAddress("0xMe", [err |-> FALSE, txs |-> <<tx>>], NoFetch,
                                   NoFetch, opts)

SpecClassify == InitPrice /\ [][NextClassify]_vars

NextPortfolio ==
    \/ \E repoErr \in RepositoryErrors :
          GetPortfolioAssetsNoPortfolio(repoErr)
    \/ /\ folio.at = "idle"
       /\ \E holdings \in SeqsUpTo(HoldingChoices, MaxHoldings),
             tokenTxs \in TxFetches(TokenTxChoices, MaxTokenTxs),
             internalTxs \in TxFetches(InternalTxChoices, MaxInternalTxs),
             native \in NativeFetches,
             known \in SUBSET {USDCAddress},
             currency \in Currencies :
             GetPortfolioAssets(holdings, tokenTxs, internalTxs, native, known, currency)
    \/ GetPricesRuns
    \/ GetPortfolioAssetsPriced
    \/ PortfolioDone
    \/ TickHalfMinute

SpecPortfolio == InitPrice /\ [][NextPortfolio]_vars

\* ------------------------------------------------------- claims: RateLimiter

\* The timestamps of ts inside the trailing window of an Allow call made at t.
WindowCount(ts, t) == Cardinality({i \in DOMAIN ts : ts[i] > t - windowDuration})

Min(a, b) == IF a < b THEN a ELSE b

\* C3: an Allow call returns nil exactly when fewer than maxCalls of the
\* timestamps it found are inside the trailing window, and then the list is
\* those timestamps followed by the call's now; a refused call returns
\* ErrRateLimitExceeded and leaves only the timestamps that were in the window.
AllowAdmitsBelowLimit ==
    \A p \in Callers :
        pc[p] = "unlock" =>
            LET inWindow == WindowCount(seenL[p], nowL[p])
            IN  /\ (retL[p] = NoErr) <=> (inWindow < maxCalls)
                /\ retL[p] # NoErr => retL[p] = ErrRateLimitExceeded
                /\ retL[p] = NoErr =>
                       /\ Len(callTimestamps) = inWindow + 1
                       /\ callTimestamps[Len(callTimestamps)] = nowL[p]
                /\ retL[p] # NoErr =>
                       /\ Len(callTimestamps) = inWindow
                       /\ \A i \in DOMAIN callTimestamps :
                              \E j \in DOMAIN seenL[p] : seenL[p][j] = callTimestamps[i]

\* C3 witness: a call refused at the limit, and in the same run a call admitted
\* after an older timestamp had left the window.
AllowRefusedAtLimit ==
    \E p \in Callers :
        /\ pc[p] = "unlock"
        /\ retL[p] = ErrRateLimitExceeded
        /\ Len(seenL[p]) = maxCalls
        /\ okCount > maxCalls

\* C4: once every started Allow call has returned, and the clock is still
\* inside the first window of a limiter that started empty, exactly
\* min(started, maxCalls) calls returned nil and the others the error.
ConcurrentAllowAdmitsMin ==
    ((\A p \in Callers : pc[p] = "idle") /\ now < windowDuration) =>
        /\ okCount = Min(started, maxCalls)
        /\ errCount = started - okCount

\* C4 witness: callers that overlapped in Allow, one admitted and one refused,
\* all inside the first window.
ConcurrentAllowOverLimit ==
    /\ \A p \in Callers : pc[p] = "idle"
    /\ now < windowDuration
    /\ contended
    /\ started >= NumCallers
    /\ okCount = maxCalls
    /\ errCount >= 1

\* ----------------------------------------------------- claims: GetPrices

\* The cache key the specification gives a token: address:currency.
KeyOf(tk, currency) == Address[tk] \o ":" \o currency

\* The call that is followed has read the cache and the clock; it has
\* returned or is about to.
Sorted == call.at \notin {"idle", "sort"}
Done == call.at \in {"done", "returned"}

\* The cache, as the call read it, holds a price for the token's key that is
\* less than cacheTTL old at the time the call read the clock.
FreshAtCall(tk) ==
    /\ KeyOf(tk, call.currency) \in DOMAIN call.cached
    /\ call.now - call.cached[KeyOf(tk, call.currency)].LastUpdated < cacheTTL

\* Provider calls a GetPrices call made.
UpstreamCalls(c) == Len(c.primaryCalls) + Len(c.fallbackCalls)

\* C1: the fallback provider is called at most once, and in a call that has
\* come to its end it was called exactly when the rate limiter refused or the
\* primary call failed, with the batch of missed tokens (the batch the primary
\* was given, when it was called); after a primary call that succeeded the
\* fallback is not called.
FallbackOnlyAfterPrimaryFailure ==
    LET denied == call.allowCalls = 1 /\ call.allowRet # NoErr
        primaryBroke == Len(call.primaryCalls) = 1 /\ call.primaryErr
    IN  /\ Len(call.fallbackCalls) <= 1
        /\ Len(call.fallbackCalls) = 1 => (denied \/ primaryBroke)
        /\ Done => ((Len(call.fallbackCalls) = 1) <=> (denied \/ primaryBroke))
        /\ Len(call.fallbackCalls) = 1 =>
              /\ call.fallbackCalls[1] = call.missedTokens
              /\ Len(call.missedTokens) > 0
              /\ Len(call.primaryCalls) = 1 =>
                    call.primaryCalls[1] = call.fallbackCalls[1]
        /\ (Len(call.primaryCalls) = 1 /\ ~call.primaryErr) =>
              call.fallbackCalls = <<>>

\* C1 witness: the primary failed on a batch of two tokens and the fallback was
\* called with it, while another goroutine was inside its own GetPrices.
FallbackAfterPrimaryError ==
    /\ Done
    /\ Len(call.primaryCalls) = 1
    /\ call.primaryErr
    /\ Len(call.fallbackCalls) = 1
    /\ Len(call.missedTokens) >= 2
    /\ \E p \in Callers : goroutine[p].at \notin {"idle", "done"}

\* C2: when the primary attempt and the fallback call both failed, GetPrices
\* returns the error and a nil map, whatever the cache had fresh.
BothFailedReturnsNothing ==
    (Len(call.fallbackCalls) = 1 /\ call.fallbackErr) =>
        /\ Done
        /\ call.err = ErrBothFailed
        /\ call.resultsNil
        /\ DOMAIN call.results = {}

\* C2 witness: both providers failed in a call that had a fresh cache hit.
BothFailedWithFreshHit ==
    /\ Done
    /\ Len(call.fallbackCalls) = 1
    /\ call.fallbackErr
    /\ \E tk \in Range(call.tokens) :
          FreshAtCall(tk) /\ tk \notin Range(call.missedTokens)

\* C5: when a caller repeats a GetPrices call less than cacheTTL after a first
\* call that found none of the tokens in the cache and returned a price for
\* every one of them after one provider call, the two calls together make at
\* most one provider call: the second is served from the cache.
SecondCallServedFromCache ==
    (call.nth = 2 /\ Done) =>
        LET first == call.before[1]
        IN  (/\ first.err = NoErr
             /\ \A tk \in Range(first.tokens) :
                   /\ KeyOf(tk, first.currency) \notin DOMAIN first.cached
                   /\ tk \in DOMAIN first.results
             /\ UpstreamCalls(first) <= 1
             /\ call.now - first.now < cacheTTL)
            => UpstreamCalls(first) + UpstreamCalls(call) <= 1

\* C6: after a fetch that succeeded the cache is written, under
\* address:currency, every fetched price, with a LastUpdated that is the time
\* of the call: no earlier than the clock the call read.
CachedStampIsCallTime ==
    call.setBatchCalls = 1 =>
        \A tk \in DOMAIN call.fetched :
            /\ KeyOf(tk, call.currency) \in DOMAIN call.cacheItems
            /\ call.cacheItems[KeyOf(tk, call.currency)].Value = call.fetched[tk].Value
            /\ call.cacheItems[KeyOf(tk, call.currency)].LastUpdated >= call.now

\* C7: a requested token is served from the cache (it is not in missedTokens,
\* and the price returned for it is the cached one) exactly when the cache holds
\* a price for its key less than cacheTTL old.
ServedFromCacheIffFresh ==
    Sorted =>
        \A tk \in Range(call.tokens) :
            /\ FreshAtCall(tk) <=> tk \notin Range(call.missedTokens)
            /\ (FreshAtCall(tk) /\ Done /\ call.err = NoErr) =>
                  /\ tk \in DOMAIN call.results
                  /\ call.results[tk] = call.cached[KeyOf(tk, call.currency)]

\* C8: when some requested token is absent or stale and Allow returned nil, the
\* primary is called once, with exactly the absent and stale tokens.
PrimaryBatchIsMissedSet ==
    (/\ Done
     /\ \E tk \in Range(call.tokens) : ~FreshAtCall(tk)
     /\ call.allowRet = NoErr) =>
        /\ Len(call.primaryCalls) = 1
        /\ Range(call.primaryCalls[1]) = {tk \in Range(call.tokens) : ~FreshAtCall(tk)}

\* C9: when Allow refused, the primary is not called and the fallback is; if
\* the fallback answers, GetPrices returns its prices and no error.
DeniedFallsBackSilently ==
    (call.allowCalls = 1 /\ call.allowRet # NoErr) =>
        /\ call.primaryCalls = <<>>
        /\ Done =>
              /\ Len(call.fallbackCalls) = 1
              /\ ~call.fallbackErr =>
                    /\ call.err = NoErr
                    /\ ~call.resultsNil
                    /\ \A tk \in DOMAIN call.fetched :
                          /\ tk \in DOMAIN call.results
                          /\ call.results[tk] = call.fetched[tk]
                          /\ call.results[tk].Value = MockQuote

\* C9 witness: a call refused because another goroutine's GetPrices had taken
\* the limiter's one slot; its fallback answered with a price.
DeniedServedByFallback ==
    /\ Done
    /\ call.allowCalls = 1
    /\ call.allowRet = ErrRateLimitExceeded
    /\ ~call.fallbackErr
    /\ DOMAIN call.fetched # {}
    /\ call.err = NoErr

\* C10: when every requested token is fresh in the cache, GetPrices asks no
\* rate limiter, calls no provider and writes nothing to the cache.
AllFreshTouchesNothing ==
    (/\ Sorted
     /\ Len(call.tokens) > 0
     /\ \A tk \in Range(call.tokens) : FreshAtCall(tk)) =>
        /\ call.allowCalls = 0
        /\ call.primaryCalls = <<>>
        /\ call.fallbackCalls = <<>>
        /\ call.setBatchCalls = 0

\* ------------------------------------------ claims: RateLimitedService

\* The number of batches a slice of n tokens is cut into.
NumBatches(n, maxBatchSize) == (n + maxBatchSize - 1) \div maxBatchSize

\* The tokens of the batches the provider was called for.
CalledTokens == UNION {Range(batched.batches[j].tokens) :
                          j \in {x \in DOMAIN batched.batches : batched.batches[x].called}}

\* C11: a batch the rate limiter refuses is skipped without error: the
\* provider is not called for it and it adds no price, so that a token of no
\* other, allowed batch is absent from the result; the call does not end with
\* it, and a call that returns nil has gone through every batch.
DeniedBatchSkipped ==
    /\ \A k \in DOMAIN batched.batches :
          batched.batches[k].allowRet # NoErr =>
              /\ ~batched.batches[k].called
              /\ DOMAIN batched.batches[k].prices = {}
              /\ batched.err # NoErr => k < Len(batched.batches)
              /\ \A tk \in Range(batched.batches[k].tokens) \ CalledTokens :
                    tk \notin DOMAIN batched.results
    /\ (batched.at = "returned" /\ batched.err = NoErr) =>
          /\ ~batched.resultsNil
          /\ Len(batched.batches) = NumBatches(Len(batched.tokens), batched.maxBatchSize)
          /\ \A k \in DOMAIN batched.batches :
                batched.batches[k].tokens =
                    BatchTokens(batched.tokens, (k - 1) * batched.maxBatchSize,
                                batched.maxBatchSize)

\* C11 witness: a call returned nil after a refused batch was followed by an
\* allowed one that brought a price; a token of the refused batch has none.
DeniedBatchThenAllowedBatch ==
    /\ batched.at = "returned"
    /\ batched.err = NoErr
    /\ \E k, j \in DOMAIN batched.batches :
          /\ k < j
          /\ batched.batches[k].allowRet = ErrRateLimitExceeded
          /\ batched.batches[j].called
          /\ DOMAIN batched.batches[j].prices # {}
          /\ \E tk \in Range(batched.batches[k].tokens) : tk \notin DOMAIN batched.results

\* C12: when the provider fails for a batch the limiter allowed, the call
\* returns the error and a nil map, the prices of earlier batches dropped, and
\* that batch is the last one attempted.
ProviderErrorAborts ==
    \A k \in DOMAIN batched.batches :
        (batched.batches[k].called /\ batched.batches[k].err) =>
            /\ batched.at = "returned"
            /\ batched.err = ErrProvider
            /\ batched.resultsNil
            /\ DOMAIN batched.results = {}
            /\ k = Len(batched.batches)

\* C12 witness: the provider failed after an earlier batch had brought a
\* price, with tokens still waiting behind the failed batch.
ProviderErrorAfterPricedBatch ==
    /\ batched.at = "returned"
    /\ batched.err = ErrProvider
    /\ \E k \in DOMAIN batched.batches :
          k < Len(batched.batches) /\ DOMAIN batched.batches[k].prices # {}
    /\ batched.i + batched.maxBatchSize < Len(batched.tokens)

\* ------------------------------------------------- claims: CalculateValue

\* x <= y for two non-nil big.Int.
BigLeq(x, y) == BigSub(y, x).sign >= 0

\* q is the floor of x / y: q * y <= x < (q + 1) * y, for y > 0.
IsFloorOf(q, x, y) ==
    /\ BigLeq(BigMul(q, y), x)
    /\ ~BigLeq(BigMul(BigAdd(q, NewInt(1)), y), x)

\* C19: for a non-nil amount and a non-nil price with a non-nil value, the
\* value is floor(amount * price.value / 10^decimals); for small arguments it
\* is what machine integers give, and 0.5 ETH at 3000.00 USD is worth
\* 150000000000.
ValueIsFloorOfProduct ==
    (/\ valued.at = "done"
     /\ ~valued.amount.nil
     /\ ~valued.priceValue.nil
     /\ ~valued.priceValue.Value.nil) =>
        /\ ~valued.value.nil
        /\ valued.value.mag = Trim(valued.value.mag)
        /\ IsFloorOf(valued.value,
                     BigMul(valued.amount, valued.priceValue.Value),
                     BigOfNat(1, NatExp10(valued.decimals)))
        /\ (valued.decimals <= MaxDecimals + 1
                /\ valued.amount # HalfEther
                /\ valued.priceValue.Value # ThreeThousandUSD) =>
              Int64(valued.value) =
                  (Int64(valued.amount) * Int64(valued.priceValue.Value))
                      \div (10 ^ valued.decimals)
        /\ (valued.decimals = EthDecimal
                /\ valued.amount = HalfEther
                /\ valued.priceValue.Value = ThreeThousandUSD) =>
              valued.value = BigOfNat(1, NatMul(<<5, 1>>, NatExp10(10)))

\* C19 witness: the worked example has been computed.
HalfEtherValued ==
    /\ valued.at = "done"
    /\ valued.decimals = EthDecimal
    /\ valued.amount = HalfEther
    /\ valued.priceValue.Value = ThreeThousandUSD
    /\ ~valued.value.nil

\* C19 witness of the rounding: a negative amount whose product is no multiple
\* of 10^decimals.
NegativeAmountValued ==
    /\ valued.at = "done"
    /\ valued.decimals = 1
    /\ valued.amount = NewInt(-7)
    /\ valued.priceValue = PriceOf(NewInt(3))
    /\ Int64(valued.value) = -3

\* C20 as stated: a zero amount gives the value 0 whether or not there is a
\* price.
ZeroAmountAlwaysZero ==
    (valued.at = "done" /\ ~valued.amount.nil /\ valued.amount.sign = 0) =>
        valued.value = NewInt(0)

\* C20: a zero amount gives the value 0 when there is a price with a value,
\* whatever the price; without one the value is nil, as for any other amount.
ZeroAmountZeroWhenPriced ==
    (valued.at = "done" /\ ~valued.amount.nil /\ valued.amount.sign = 0) =>
        IF valued.priceValue.nil \/ valued.priceValue.Value.nil
        THEN valued.value = NilInt
        ELSE valued.value = NewInt(0)

\* C20 witness: a zero amount has been valued without a price.
ZeroAmountNoPrice ==
    /\ valued.at = "done"
    /\ valued.amount = NewInt(0)
    /\ valued.priceValue = NilPrice
    /\ valued.value = NilInt

\* ---------------------------------------------------------------------------
\* GetPortfolioAssets: what is claimed of it.

\* f[1] + ... + f[n]
RECURSIVE SumTo(_, _)
SumTo(f, n) == IF n = 0 THEN 0 ELSE SumTo(f, n - 1) + f[n]

\* GetPortfolioAssets got as far as aggregating the balances.
Aggregated == folio.at = "done" /\ folio.err \in {NoErr, ErrBothFailed}

\* GetPortfolioAssets returned assets.
Succeeded == folio.at = "done" /\ folio.err = NoErr /\ ~folio.assetsNil

\* The key of a token in the aggregated balances: the native token, which
\* transactions name "", is kept under the zero address.
NativeKeys == {ZeroAddress, ""}

\* The sum of the stored holdings of the token with key k.
HeldOf(k) ==
    SumTo([i \in DOMAIN folio.holdings |->
              IF EqualFold(folio.holdings[i].Address, k)
              THEN folio.holdings[i].Amount ELSE 0],
          Len(folio.holdings))

\* The net balance the fetched transactions give the token with key k: what
\* came in to the portfolio's address less what went out of it.
TransferredOf(k) ==
    LET txs == (IF folio.tokenTxs.err THEN <<>> ELSE folio.tokenTxs.txs)
                   \o (IF folio.internalTxs.err THEN <<>> ELSE folio.internalTxs.txs)
        OfToken(tx) == IF k \in NativeKeys THEN tx.TokenAddress = ""
                       ELSE EqualFold(tx.TokenAddress, k)
        Net(tx) == (IF EqualFold(tx.To, PortfolioAddress) THEN tx.Amount ELSE 0)
                   - (IF EqualFold(tx.From, PortfolioAddress) THEN tx.Amount ELSE 0)
    IN  SumTo([i \in DOMAIN txs |-> IF OfToken(txs[i]) THEN Net(txs[i]) ELSE 0], Len(txs))

\* The balance of key k in a map of balances, 0 when it has none.
BalanceOf(balances, k) == IF k \in DOMAIN balances THEN balances[k] ELSE 0

\* C13 as stated: before the live balance is written, the balance of every
\* token key, the native one included, is the stored holdings of the token
\* plus the net balance of its transactions.
EveryKeyIsHoldingsPlusTransfers ==
    Aggregated =>
        \A k \in {USDCAddress, ZeroAddress} :
            BalanceOf(folio.beforeLive, k) = HeldOf(k) + TransferredOf(k)

\* C13: before the live balance is written, the balance of every token key
\* other than the native one is the stored holdings of the token plus the net
\* balance of its transactions; the native balance is the stored native
\* holdings alone, and native transactions are added under no key.
NonNativeKeyIsHoldingsPlusTransfers ==
    Aggregated =>
        \A k \in DOMAIN folio.beforeLive \cup {USDCAddress, ZeroAddress} :
            BalanceOf(folio.beforeLive, k) =
                HeldOf(k) + (IF k \in NativeKeys THEN 0 ELSE TransferredOf(k))

\* C13 witness: holdings of 1000000, 500000 in and 200000 out make 1300000,
\* beside a native holding that a native transfer did not change.
HoldingsPlusTransfersExample ==
    /\ Aggregated
    /\ HeldOf(USDCAddress) = 1000000
    /\ TransferredOf(USDCAddress) = 300000
    /\ Len(folio.tokenTxs.txs) = 2
    /\ BalanceOf(folio.beforeLive, USDCAddress) = 1300000
    /\ TransferredOf(ZeroAddress) = 500000
    /\ BalanceOf(folio.beforeLive, ZeroAddress) = 1000000

\* C14: whenever a live native balance has been obtained, the native entry of
\* the aggregated balances is exactly that balance.
LiveBalanceIsNativeEntry ==
    (Aggregated /\ ~folio.native.err) =>
        BalanceOf(folio.aggregated, ZeroAddress) = folio.native.value

\* A live native balance of zero was obtained beside a stored native holding.
LiveZeroBesideHolding ==
    /\ Aggregated
    /\ ~folio.native.err
    /\ folio.native.value = 0
    /\ HeldOf(ZeroAddress) > 0

\* C15: a failed fetch of the token transfers, of the internal transfers or of
\* the live native balance does not fail GetPortfolioAssets: with the prices
\* resolved the call returns assets, and the balances are those of the
\* sources that answered.
FetchFailuresAreNotFatal ==
    (/\ folio.at = "done"
     /\ folio.priceCalls = 1 => ~folio.priced.err
     /\ folio.err \notin {ErrPortfolioNotFound, ErrRepository}
     /\ folio.tokenTxs.err \/ folio.internalTxs.err \/ folio.native.err) =>
        /\ Succeeded
        /\ \A k \in DOMAIN folio.aggregated \cup {USDCAddress, ZeroAddress} :
              BalanceOf(folio.aggregated, k) =
                  IF k = ZeroAddress /\ ~folio.native.err /\ folio.native.value > 0
                  THEN folio.native.value
                  ELSE HeldOf(k) + (IF k \in NativeKeys THEN 0 ELSE TransferredOf(k))
        /\ \A k \in DOMAIN folio.assets : folio.assets[k].Amount = folio.aggregated[k]

\* C15 witness: all three fetches failed and the stored holdings are reported.
AllFetchesFailedHoldingsReported ==
    /\ Succeeded
    /\ folio.tokenTxs.err /\ folio.internalTxs.err /\ folio.native.err
    /\ {USDCAddress, ZeroAddress} \subseteq DOMAIN folio.assets
    /\ folio.assets[USDCAddress].Amount = 1000000
    /\ folio.assets[ZeroAddress].Amount = 1000000

\* C16: when the price resolution fails, GetPortfolioAssets fails with that
\* error and returns no portfolio and no assets.
PriceFailureFails ==
    (folio.at = "done" /\ folio.priceCalls = 1 /\ folio.priced.err) =>
        /\ folio.err = ErrBothFailed
        /\ folio.assetsNil
        /\ folio.portfolioNil
        /\ folio.assets = EmptyMap

\* C16 witness: the price resolution failed for a portfolio with balances.
PriceFailureWithBalances ==
    /\ folio.at = "done"
    /\ folio.priced.err
    /\ folio.err = ErrBothFailed
    /\ BalanceOf(folio.aggregated, USDCAddress) > 0
    /\ USDCAddress \in folio.known

\* The tokens of positive balance whose metadata is known: the native token,
\* and the tokens the repository knows.
KnownPositive ==
    {k \in DOMAIN folio.aggregated :
        folio.aggregated[k] > 0 /\ (k = ZeroAddress \/ k \in folio.known)}

\* The key of the token the prices name by id.
KeyOfID(id) == IF id = EthToken.ID THEN ZeroAddress ELSE USDCAddress

\* C17: a token of positive balance and known metadata for which the prices
\* hold nothing is reported, as an asset without price and without value; the
\* call does not fail.
UnpricedIsReportedWithoutValue ==
    (folio.at = "done" /\ folio.priceCalls = 1 /\ ~folio.priced.err) =>
        \A k \in KnownPositive :
            (\A id \in DOMAIN folio.priced.prices : KeyOfID(id) # k) =>
                /\ Succeeded
                /\ k \in DOMAIN folio.assets
                /\ folio.assets[k].Amount = folio.aggregated[k]
                /\ folio.assets[k].Price = NilPrice
                /\ folio.assets[k].Value = NilInt

\* C17 witness: of two tokens with balance and metadata one was priced and
\* the other was not.
OnePricedOneUnpriced ==
    /\ Succeeded
    /\ {USDCAddress, ZeroAddress} \subseteq DOMAIN folio.assets
    /\ folio.assets[USDCAddress].Price = NilPrice
    /\ folio.assets[USDCAddress].Value = NilInt
    /\ ~folio.assets[ZeroAddress].Price.nil
    /\ ~folio.assets[ZeroAddress].Value.nil

\* C18: every asset GetPortfolioAssets returns has an amount greater than
\* zero.
EveryAssetAmountPositive ==
    Succeeded => \A k \in DOMAIN folio.assets : folio.assets[k].Amount > 0

\* C18 witness: a token whose holdings and transfers cancel is left out, beside
\* an asset that is returned.
ZeroBalanceLeftOut ==
    /\ Succeeded
    /\ USDCAddress \in DOMAIN folio.aggregated
    /\ USDCAddress \in folio.known
    /\ folio.aggregated[USDCAddress] = 0
    /\ USDCAddress \notin DOMAIN folio.assets
    /\ ZeroAddress \in DOMAIN folio.assets

\* C21: GetPortfolioAssets for a portfolio id the repository does not have
\* fails with ErrPortfolioNotFound and returns no portfolio and no assets.
AbsentPortfolioIsNotFound ==
    (folio.at = "done" /\ ErrorsIs(folio.repoErr, ErrPortfolioNotFound)) =>
        /\ folio.err = ErrPortfolioNotFound
        /\ folio.portfolioNil
        /\ folio.assetsNil
        /\ folio.assets = EmptyMap
        /\ folio.priceCalls = 0

\* C21 witness: the repository answered that the id is absent.
AbsentPortfolioAsked ==
    /\ folio.at = "done"
    /\ folio.repoErr = ErrNotFoundWrapped
    /\ folio.err = ErrPortfolioNotFound

\* ---------------------------------------------------------------------------
\* CalculateTokensAmounts: what is claimed of it.

\* The transactions of the call that count for the key k: those with an
\* amount and a direction whose token address is k but for the case of its
\* letters.
CountsFor(tx, k) ==
    ~tx.nil /\ ~tx.AmountNil /\ tx.Direction # "" /\ EqualFold(tx.TokenAddress, k)

\* The sum of the amounts of the counted transactions of key k and direction d.
DirectedSum(k, d) ==
    SumTo([i \in DOMAIN reduced.ts |->
              IF CountsFor(reduced.ts[i], k) /\ reduced.ts[i].Direction = d
              THEN reduced.ts[i].Amount ELSE 0],
          Len(reduced.ts))

\* C22: CalculateTokensAmounts returns a balance for the token keys of the
\* transactions that have an amount and a direction, and for no other; the
\* balance of a key is the sum of its in amounts less the sum of its out
\* amounts, so that a transaction without direction changes nothing.
BalancesAreInLessOut ==
    reduced.at = "done" =>
        /\ reduced.err = NoErr
        /\ DOMAIN reduced.balances =
               {k \in {"", USDCAddress} :
                   \E i \in DOMAIN reduced.ts : CountsFor(reduced.ts[i], k)}
        /\ \A k \in DOMAIN reduced.balances :
               reduced.balances[k] = DirectedSum(k, "in") - DirectedSum(k, "out")

\* C22 witness: in 100 and out 40 on one token give 60, a third transaction of
\* the token having no direction.
InHundredOutFortyReduced ==
    /\ reduced.at = "done"
    /\ Len(reduced.ts) = 3
    /\ DirectedSum(USDCAddress, "in") = 100
    /\ DirectedSum(USDCAddress, "out") = 40
    /\ \E i \in DOMAIN reduced.ts :
          /\ reduced.ts[i].Direction = ""
          /\ ~reduced.ts[i].AmountNil
          /\ reduced.ts[i].TokenAddress = USDCStored
    /\ reduced.balances = [k \in {USDCAddress} |-> 60]

\* --------------------------------------------- claims: TransactionsByAddress

\* TransactionsByAddress fetched, filtered and sorted, and came to paginate.
Paginated == listing.at = "done" /\ listing.err = NoErr

\* a <= b as signed 64-bit values.
WordLeq(a, b) == ~WordLess(b, a)

\* For m, n >= 1 and a place i of the list: m * n <= i, in unbounded
\* arithmetic. A factor above i makes the product exceed i.
ProductAtMost(m, n, i) ==
    /\ WordLeq(m, WordOfInt(i))
    /\ WordLeq(n, WordOfInt(i))
    /\ IntOfWord(m) * IntOfWord(n) <= i

\* The place i (from 0) of the list lies in [start, start + pageSize) for
\* start = (page - 1) * pageSize, in unbounded arithmetic.
InPage(page, pageSize, i) ==
    /\ page = One \/ ProductAtMost(WordSub(page, One), pageSize, i)
    /\ ~ProductAtMost(page, pageSize, i)

\* The transactions of ts at the places of S, in their order in ts.
RECURSIVE Pick(_, _, _)
Pick(ts, S, k) ==
    IF k > Len(ts) THEN <<>>
    ELSE (IF k \in S THEN <<ts[k]>> ELSE <<>>) \o Pick(ts, S, k + 1)

\* C23: for a filtered list of any length and any page >= 1 and page
\* size >= 1, TransactionsByAddress returns the transactions at the places
\* start .. min(start + pageSize, len) - 1 of the sorted list, for
\* start = (page - 1) * pageSize: none when start >= len.
PageIsTheSliceAsked ==
    (/\ Paginated
     /\ WordLess(Zero, listing.opts.Page)
     /\ WordLess(Zero, listing.opts.PageSize)) =>
        /\ ~listing.panicked
        /\ listing.page =
              Pick(listing.sorted,
                   {k \in DOMAIN listing.sorted :
                       InPage(listing.opts.Page, listing.opts.PageSize, k - 1)}, 1)

\* Page 3 of pages of math.MaxInt64 transactions was asked for.
ThirdPageOfLargestSize ==
    /\ Paginated
    /\ listing.opts.Page = WordOfInt(3)
    /\ listing.opts.PageSize = MaxInt64
    /\ listing.panicked

\* Whenever page and page size are small, the page is the slice asked for.
SmallPageIsTheSliceAsked ==
    (/\ Paginated
     /\ WordLess(Zero, listing.opts.Page) /\ WordLeq(listing.opts.Page, WordOfInt(MaxPage))
     /\ WordLess(Zero, listing.opts.PageSize)
     /\ WordLeq(listing.opts.PageSize, WordOfInt(MaxPage))) =>
        /\ ~listing.panicked
        /\ listing.page =
              Pick(listing.sorted,
                   {k \in DOMAIN listing.sorted :
                       InPage(listing.opts.Page, listing.opts.PageSize, k - 1)}, 1)

\* C24: the page TransactionsByAddress returns is in strict descending order
\* of timestamp: every transaction is later than the one after it.
PageStrictlyDescending ==
    Paginated =>
        \A i \in 1..(Len(listing.page) - 1) :
            listing.page[i].Timestamp > listing.page[i + 1].Timestamp

\* C24, amended: no transaction of the page is earlier than the one after it;
\* transactions of one timestamp follow each other.
PageNeverAscending ==
    Paginated =>
        \A i \in 1..(Len(listing.page) - 1) :
            listing.page[i].Timestamp >= listing.page[i + 1].Timestamp

\* A page of three transactions that were fetched oldest first, two of them
\* of one timestamp.
TiedPageSortedFromAscending ==
    /\ Paginated
    /\ Len(listing.page) = 3
    /\ listing.all[1].Timestamp < listing.all[2].Timestamp
    /\ listing.page[1].Timestamp = listing.page[2].Timestamp
    /\ listing.page[2].Timestamp > listing.page[3].Timestamp

\* The transactions of ts that are a or b, in their order in ts.
OrderOf(ts, a, b) ==
    LET Either(x) == x \in {a, b}
    IN  SelectSeq(ts, Either)

\* C25: the sort before pagination is stable: transactions of equal
\* timestamp keep, in the sorted list, the relative order they had in the
\* concatenated fetch (native, internal, token) after filtering.
SortKeepsFetchOrderOfTies ==
    Paginated =>
        \A i, j \in DOMAIN listing.filtered :
            listing.filtered[i].Timestamp = listing.filtered[j].Timestamp =>
                OrderOf(listing.sorted, listing.filtered[i], listing.filtered[j])
                    = OrderOf(listing.filtered, listing.filtered[i], listing.filtered[j])

\* Thirteen transfers fetched oldest first, the second and the third of one
\* timestamp, came out of the sort with the third before the second.
TiedPairReversed ==
    /\ Paginated
    /\ listing.nativeTxs = LongFetch(2)
    /\ \E i \in DOMAIN listing.sorted :
          /\ listing.sorted[i].Hash = 3
          /\ listing.sorted[i + 1].Hash = 2

\* Lists of at most twelve transactions come out in the one order in which
\* ties keep their order of fetch.
ShortListsSortedStably ==
    (Paginated /\ Len(listing.filtered) <= MaxInsertion) =>
        \A i, j \in DOMAIN listing.filtered :
            listing.filtered[i].Timestamp = listing.filtered[j].Timestamp =>
                OrderOf(listing.sorted, listing.filtered[i], listing.filtered[j])
                    = OrderOf(listing.filtered, listing.filtered[i], listing.filtered[j])

\* A call whose filter is on dates alone.
OnlyDatesFiltered ==
    /\ Paginated
    /\ listing.opts.TypeNil /\ listing.opts.StatusNil
    /\ listing.opts.TokenNil /\ listing.opts.DirectionNil

\* The fetched transactions, nil pointers left out.
Fetched == SelectSeq(listing.enriched, LAMBDA tx : ~tx.nil)

\* C26: with date filters set, TransactionsByAddress keeps exactly the
\* transactions with fromDate <= t < toDate: one stamped exactly toDate is
\* excluded.
KeptFromInclusiveToExclusive ==
    OnlyDatesFiltered =>
        listing.filtered =
            SelectSeq(Fetched,
                LAMBDA tx :
                    /\ listing.opts.FromDateNil \/ listing.opts.FromDate <= tx.Timestamp
                    /\ listing.opts.ToDateNil \/ tx.Timestamp < listing.opts.ToDate)

\* C26, amended: TransactionsByAddress keeps exactly the transactions with
\* fromDate <= t <= toDate: one stamped exactly fromDate and one stamped
\* exactly toDate are both kept.
KeptFromInclusiveToInclusive ==
    OnlyDatesFiltered =>
        listing.filtered =
            SelectSeq(Fetched,
                LAMBDA tx :
                    /\ listing.opts.FromDateNil \/ listing.opts.FromDate <= tx.Timestamp
                    /\ listing.opts.ToDateNil \/ tx.Timestamp <= listing.opts.ToDate)

\* Transfers stamped 1, 2 and 3 were filtered from 2 to 3: the first was
\* dropped, the two on the ends were kept.
BothEndsKept ==
    /\ OnlyDatesFiltered
    /\ ~listing.opts.FromDateNil /\ listing.opts.FromDate = 2
    /\ ~listing.opts.ToDateNil /\ listing.opts.ToDate = 3
    /\ {tx.Timestamp : tx \in Range(Fetched)} = {1, 2, 3}
    /\ {tx.Timestamp : tx \in Range(listing.filtered)} = {2, 3}

\* ------------------------------------------------- claims: classification

\* The direction the classifier is specified to give.
DirectionFor(from, to, address) ==
    IF EqualFold(from, address) THEN "out"
    ELSE IF EqualFold(to, address) THEN "in"
    ELSE "out"

\* The provider or a caller has had a transaction classified.
Classified == classified.at = "done"

\* The transactions of a listing after enrichment, beside what was fetched.
EnrichedPlaces ==
    IF Paginated THEN {i \in DOMAIN listing.enriched : ~listing.enriched[i].nil} ELSE {}

\* C27: direction detection compares addresses without regard to case and
\* always yields a direction: out when from is the queried address, in when
\* to is, out when neither is. This holds of DetectDirection and of the
\* direction the transaction service sets.
DirectionAlwaysDetected ==
    /\ Classified =>
          classified.direction =
              DirectionFor(classified.before.From, classified.before.To, classified.address)
    /\ \A i \in EnrichedPlaces :
          listing.enriched[i].Direction =
              DirectionFor(listing.all[i].From, listing.all[i].To,
                           TrimSpace(listing.address))

\* DetectDirection by itself gives the specified direction.
DetectDirectionAlwaysYields ==
    Classified =>
        classified.direction =
            DirectionFor(classified.before.From, classified.before.To, classified.address)

\* The transaction service enriched a transfer of the address to itself that
\* came without direction, and left it without one.
SelfTransferLeftUndirected ==
    \E i \in EnrichedPlaces :
        /\ EqualFold(listing.all[i].From, listing.address)
        /\ EqualFold(listing.all[i].To, listing.address)
        /\ listing.all[i].Direction = ""
        /\ listing.enriched[i].Direction = ""

\* The provider has converted a transaction.
Converted == classified.at = "done" /\ classified.op = "convert"

\* C28: no transaction leaves classification, be it the provider's conversion
\* or the transaction service's enrichment, with type send and direction in:
\* such a transaction is a receive.
NoSendComesIn ==
    /\ Converted => ~(classified.tx.Type = "send" /\ classified.tx.Direction = "in")
    /\ \A i \in EnrichedPlaces :
          ~(listing.enriched[i].Type = "send" /\ listing.enriched[i].Direction = "in")

\* The provider's conversion by itself leaves no send that comes in.
ConversionLeavesNoSendComingIn ==
    Converted => ~(classified.tx.Type = "send" /\ classified.tx.Direction = "in")

\* The transaction service enriched a transfer to the address that the
\* provider had typed send, and left it a send that comes in.
TypedSendLeftComingIn ==
    \E i \in EnrichedPlaces :
        /\ listing.all[i].Type = "send"
        /\ EqualFold(listing.all[i].To, listing.address)
        /\ ~EqualFold(listing.all[i].From, listing.address)
        /\ listing.enriched[i].Type = "send"
        /\ listing.enriched[i].Direction = "in"

\* The transactions that agree with tx in method signature, and those that
\* agree with it in sender and receiver, whatever their other fields hold.
SameMethod(tx) ==
    {v \in TypedChoices : v.MethodSig = tx.MethodSig /\ v.Method = tx.Method}
SameParties(tx) == {v \in TypedChoices : v.From = tx.From /\ v.To = tx.To}

\* A caller has called ClassifyType and DetectDirection on a transaction.
ClassifierCalled == classified.at = "done" /\ classified.op = "classify"

\* C29: the type depends only on the method signature and the input data,
\* the direction only on from, to and the queried address: a transaction
\* that differs in what its other fields held before is given the same type
\* and the same direction, by the classifier and by the enrichment of the
\* transaction service.
ClassificationIgnoresOtherFields ==
    /\ ClassifierCalled =>
          /\ \A v \in SameMethod(classified.before) :
                ClassifyType(v, classified.input) = classified.type
          /\ \A v \in SameParties(classified.before) :
                DetectDirection(v, classified.address) = classified.direction
    /\ \A i \in EnrichedPlaces :
          /\ \A v \in SameMethod(listing.all[i]) :
                enrichTransaction(v, ToLower(TrimSpace(listing.address))).Type
                    = listing.enriched[i].Type
          /\ \A v \in SameParties(listing.all[i]) :
                enrichTransaction(v, ToLower(TrimSpace(listing.address))).Direction
                    = listing.enriched[i].Direction

\* ClassifyType and DetectDirection by themselves ignore the other fields.
ClassifierIgnoresOtherFields ==
    ClassifierCalled =>
        /\ \A v \in SameMethod(classified.before) :
              ClassifyType(v, classified.input) = classified.type
        /\ \A v \in SameParties(classified.before) :
              DetectDirection(v, classified.address) = classified.direction

\* The transaction service enriched a transfer between two strangers and
\* left it the direction it came with.
EarlierDirectionKept ==
    \E i \in EnrichedPlaces :
        /\ listing.all[i].From = OtherAddress
        /\ listing.all[i].To = ThirdAddress
        /\ listing.all[i].Direction = "in"
        /\ listing.enriched[i].Direction = "in"

\* ------------------------------------------- claims: the admission window

\* C30: the window of Allow is closed at both ends: a call recorded at t is
\* still counted by an Allow at exactly t + windowDuration. The timestamps
\* Allow counts are those it found that are not older than windowDuration.
WindowClosedAtBothEnds ==
    \A p \in Callers :
        pc[p] = "check" =>
            callTimestamps =
                SelectSeq(seenL[p], LAMBDA x : x + windowDuration >= nowL[p])

\* C30, amended: the window is open at its old end: a call recorded at t is
\* counted by every Allow before t + windowDuration and no longer by an Allow
\* at exactly t + windowDuration.
WindowOpenAtOldEnd ==
    \A p \in Callers :
        pc[p] = "check" =>
            callTimestamps =
                SelectSeq(seenL[p], LAMBDA x : x + windowDuration > nowL[p])

\* A limiter at its limit was called exactly windowDuration after its oldest
\* call and admitted the caller.
AdmittedAtWindowEnd ==
    \E p \in Callers :
        /\ pc[p] = "unlock"
        /\ retL[p] = NoErr
        /\ Len(seenL[p]) = maxCalls
        /\ \E i \in DOMAIN seenL[p] : seenL[p][i] + windowDuration = nowL[p]

\* ------------------------------------------------ claims: recovery of Allow

\* The timestamps an Allow call found that were recorded more than
\* windowDuration before it.
LeftWindow(p) == {i \in DOMAIN seenL[p] : seenL[p][i] + windowDuration < nowL[p]}

\* C31: a limiter admits calls again once the admitted calls have left the
\* trailing window: an Allow call that finds fewer than maxCalls timestamps
\* other than those recorded more than windowDuration before it returns nil,
\* so after more than windowDuration without an admitted call the next
\* maxCalls calls are all admitted.
AllowAdmitsAfterWindow ==
    \A p \in Callers :
        pc[p] = "unlock" =>
            (Len(seenL[p]) - Cardinality(LeftWindow(p)) < maxCalls => retL[p] = NoErr)

\* A limiter that had refused a call at its limit was called again more than
\* windowDuration after its last admitted call, and admitted the caller.
AdmittedAgainAfterWindow ==
    \E p \in Callers :
        /\ pc[p] = "unlock"
        /\ retL[p] = NoErr
        /\ errCount > 0
        /\ Len(seenL[p]) = maxCalls
        /\ LeftWindow(p) = DOMAIN seenL[p]

\* ------------------------------------------------ claims: the price cache

\* C32: the cache never expires or evicts an entry: Get and GetBatch return,
\* for every key that was ever written, the value last written under it by
\* Set or SetBatch, however long ago that was.
CacheKeepsEveryEntry ==
    /\ cacheOp.op = "Get" /\ cacheOp.k \in DOMAIN written =>
           cacheOp.ok /\ cacheOp.v = written[cacheOp.k]
    /\ cacheOp.op = "GetBatch" =>
           \A k \in Range(cacheOp.keys) \cap DOMAIN written :
               k \in DOMAIN cacheOp.found /\ cacheOp.found[k] = written[k]

\* GetBatch was asked for two keys and returned both, one of them written a
\* full cacheTTL before the call.
OldEntryStillReturned ==
    /\ cacheOp.op = "GetBatch"
    /\ Cardinality(DOMAIN cacheOp.found) = 2
    /\ \E k \in DOMAIN cacheOp.found :
           cacheOp.at - cacheOp.found[k].LastUpdated >= cacheTTL

\* ------------------------------------------- claims: the locks of the prices

\* The goroutines that have started and not returned.
Running == {p \in Callers : goroutine[p].at \notin {"idle", "done"}}

\* C33: no interleaving of GetPrices, Allow and cache operations deadlocks:
\* no goroutine holds the limiter's lock and the cache's lock at once, a
\* provider is called with neither lock held, and whenever some goroutine
\* has not returned, one of them can take its next step.
NoLockHeldAcrossCalls ==
    /\ \A p \in Callers : ~(HoldsLimiter(p) /\ HoldsCache(p))
    /\ \A p \in Callers :
           goroutine[p].at \in {"primary", "fallback"} => ~HoldsLimiter(p) /\ ~HoldsCache(p)
    /\ Running # {} => \E p \in Running : ENABLED Step(p)

\* One goroutine of GetPrices is inside Allow with the limiter's lock while
\* another is inside SetBatch with the cache's lock.
BothLocksBusy ==
    \E p, q \in Callers :
        /\ HoldsLimiter(p)
        /\ goroutine[p].prog = "GetPrices"
        /\ goroutine[q].prog = "GetPrices"
        /\ goroutine[q].at = "writing"

\* ------------------------------------- claims: the two fetches of Etherscan

\* The hashes of a slice of transactions.
Hashes(txs) == {txs[i].Hash : i \in DOMAIN txs}

\* The call was admitted by the limiter, has collected its two rounds and has
\* returned.
ChainAnswered ==
    /\ chain.at = "done"
    /\ chain.op \in {"all", "paged"}
    /\ chain.err \notin {ErrLimited, ErrAddressRequired}

\* C34: the provider joins both fetches before it deduplicates, filters and
\* sorts: under every interleaving, a call whose collection returns without
\* error has collected every transaction of every fetch that succeeded and
\* that the filters keep.
ResultHoldsEverySuccessfulFetch ==
    ChainAnswered /\ chain.err = NoErr =>
        /\ ~chain.normal.err =>
               Hashes(applyFilters(chain.normal.txs, chain.opts)) \subseteq
                   Hashes(chain.filtered)
        /\ ~chain.token.err =>
               Hashes(applyFilters(chain.token.txs, chain.opts)) \subseteq
                   Hashes(chain.filtered)

\* Both fetches succeeded, and the call that returns everything returned
\* without the token transfer.
TransferLeftOut ==
    /\ ChainAnswered /\ chain.err = NoErr
    /\ chain.op = "all"
    /\ chain.opts = NoFilter
    /\ ~chain.normal.err /\ ~chain.token.err
    /\ "0xb1" \in Hashes(chain.token.txs)
    /\ "0xb1" \notin Hashes(chain.result)

\* C35: if both fetches fail, the call returns an error under every
\* interleaving.
TwoFailuresAreAnError ==
    ChainAnswered /\ chain.normal.err /\ chain.token.err => chain.err # NoErr

\* Both fetches failed and the call returned a nil list and no error.
TwoFailuresReportedEmpty ==
    /\ ChainAnswered
    /\ chain.op = "all"
    /\ chain.normal.err /\ chain.token.err
    /\ chain.err = NoErr
    /\ chain.result = <<>>
    /\ chain.resultNil

\* ------------------------------------------------------ claims: AddHolding

\* The holdings of a token in the table.
HoldingsOf(t) == {i \in DOMAIN ledger.rows : ledger.rows[i].token = t}

\* No call is between its read and its write.
NoAddInFlight == \A p \in Callers : ledger.calls[p].at # "read"

\* AddHolding alone has written the holdings of the token.
OnlyAdded(t) == ledger.added[t] > 0 /\ ~ledger.edited[t]

\* C36: concurrent AddHolding calls for one token leave exactly one holding
\* of that token, whose amount is the sum of everything added: once no call
\* is in flight, every token that was added, and that no UpdateHolding or
\* DeleteHolding has written, has one holding, holding the sum of the amounts
\* of the calls that returned nil.
AddsMergedIntoOneHolding ==
    NoAddInFlight =>
        \A t \in HoldingTokens :
            OnlyAdded(t) =>
                /\ Cardinality(HoldingsOf(t)) = 1
                /\ \A i \in HoldingsOf(t) : ledger.rows[i].amount = ledger.added[t]

\* Two concurrent calls for a token without holding have both created one.
DuplicateHolding ==
    /\ NoAddInFlight
    /\ \E t \in HoldingTokens : OnlyAdded(t) /\ Cardinality(HoldingsOf(t)) = 2

\* Two concurrent calls for a token with a holding have both returned nil,
\* and the one holding has less than was added.
LostUpdate ==
    /\ NoAddInFlight
    /\ \E t \in HoldingTokens :
          /\ OnlyAdded(t)
          /\ Cardinality(HoldingsOf(t)) = 1
          /\ \A i \in HoldingsOf(t) : ledger.rows[i].amount < ledger.added[t]

\* ------------------------------------------- claims: GetTransactions total

\* C37: the total GetTransactions returns is the number of transactions that
\* match the filters before pagination, and so is not smaller than the
\* length of the page returned.
TotalCountsEveryMatch ==
    Paginated /\ ~listing.panicked =>
        /\ GetTransactions(listing).total = Len(listing.filtered)
        /\ GetTransactions(listing).total >= Len(GetTransactions(listing).result)

\* Two transactions match and the first page of size one is asked: the
\* total returned is one.
TotalIsThePageLength ==
    /\ Paginated /\ ~listing.panicked
    /\ Len(listing.filtered) = 2
    /\ GetTransactions(listing).total = 1

\* --------------------------------------- claims: one asset for each token

\* GetPortfolioAssets returned assets.
AssetsReturned == folio.at = "done" /\ folio.err = NoErr

\* No two assets of the output carry the same token.
NoTokenTwice ==
    \A a, b \in DOMAIN folio.assets :
        a # b => folio.assets[a].Token.ID # folio.assets[b].Token.ID

\* The native amount of the stored holdings.
NativeHeld ==
    IF ZeroAddress \in DOMAIN AddHoldings(folio.holdings)
    THEN AddHoldings(folio.holdings)[ZeroAddress] ELSE 0

NoRepeat(batch) == \A i, j \in DOMAIN batch : batch[i] = batch[j] => i = j

\* The slices the last GetPrices call passed to its providers.
ProviderBatches == Range(call.primaryCalls) \cup Range(call.fallbackCalls)

\* C39: the batch GetPrices passes to a provider holds each missed token at
\* most once, also when the token is missed because its cached price is
\* stale; the tokens asked are distinct token objects.
BatchHoldsEachTokenOnce ==
    NoRepeat(call.tokens) => \A batch \in ProviderBatches : NoRepeat(batch)

\* GetPrices was called for one token whose cached price had gone stale, and
\* passed a batch of two to a provider.
StaleTokenPassedTwice ==
    /\ Len(call.tokens) = 1
    /\ \E batch \in ProviderBatches : batch = <<call.tokens[1], call.tokens[1]>>

\* ------------------------------- claims: termination of the batching loop

\* C40: RateLimitedService.GetPrices terminates for every token list and
\* every maxBatchSize, zero and negative included, after one limiter query
\* and at most one provider call per batch: it does not panic, and since
\* every batch takes a token, the loop makes no more turns than there are
\* tokens.
BatchingLoopTerminates ==
    /\ ~batched.panicked
    /\ Len(batched.batches) <= Len(batched.tokens)

\* With maxBatchSize 0 the loop has made more turns than there are tokens,
\* each on an empty batch, and is still in the loop.
LoopDoesNotAdvance ==
    /\ batched.maxBatchSize = 0
    /\ batched.at = "loop"
    /\ Len(batched.batches) > Len(batched.tokens)
    /\ \A k \in DOMAIN batched.batches : batched.batches[k].tokens = <<>>

\* With a negative maxBatchSize the first turn panics on tokens[0:end].
NegativeSizePanics ==
    /\ batched.maxBatchSize < 0
    /\ batched.panicked
    /\ batched.batches = <<>>

====
